---- MODULE Spec2Model ----
(***************************************************************************)
(* DRIFT - Discord Relay Into Forum Threads.                               *)
(* A model of lib/migrator.js: one call of migrateChannel (validation,     *)
(* history fetch, post and webhook creation, replay with one rate-limit    *)
(* retry, webhook cleanup, source notification and archive) and of         *)
(* fetchAllMessages (backward paging with a 'before' cursor).              *)
(*                                                                         *)
(* Strings are sequences of UTF-16 code units, one element per unit, so    *)
(* that .length and .trim() are computed as JavaScript computes them.      *)
(* The fields of opts are read-only arguments of the call: each is drawn   *)
(* by the action whose code reads it first and kept in opts from then on.  *)
(***************************************************************************)
EXTENDS Integers, Sequences, FiniteSets, TLC

\* ------------------------------------------------------------------ bounds
\* Longest channel history of a migration run.
MaxMsgs == 2
\* Longest channel history of a stand-alone fetchAllMessages run.
MaxHistory == 501
\* Largest retryAfter (seconds) carried by a rate-limit error.
MaxRetryAfter == 2
\* Longest attachment list of a message, lists over the file cap apart.
MaxAttachments == 2
\* Most text channels in the category of a bulk command.
MaxChannels == 3
\* messages of a long replay, and how many of them the loop skips at most
MaxReplay == 16
MaxSkipped == 2

\* --------------------------------------------------------- program constants
PROGRESS_INTERVAL == 15
MAX_CONTENT_LEN == 2000
\* limit of one page of channel.messages.fetch
PAGE_LIMIT == 100
\* fetchAllMessages reports progress every FETCH_PROGRESS_EVERY batches
FETCH_PROGRESS_EVERY == 5
\* retry interval used when the error carries none, seconds
DEFAULT_RETRY_AFTER == 5
\* safety margin added to the retry interval, ms
RETRY_MARGIN == 500
\* err.status / err.code of a rate-limit error
RATE_LIMITED == 429
\* err.code of "Missing Access"
MISSING_ACCESS == 50001

\* lastId = null
NULL == 0

VARIABLES
    pc,           \* position of the run in migrateChannel / fetchAllMessages
    opts,         \* the fields of opts read so far
    history,      \* the source channel's messages, oldest first (remote state)
    all,          \* fetchAllMessages: all
    lastId,       \* fetchAllMessages: lastId
    batches,      \* fetchAllMessages: batches
    pages,        \* the page requests made so far and what the remote served
    messages,     \* migrateChannel: messages
    appliedTags,  \* migrateChannel: appliedTags
    cur,          \* index in messages of the message the for loop is at
    counts,       \* messageCount, attachmentCount, skippedCount, errorCount
    retryAfter,   \* err.retryAfter of the rate-limit error being handled
    waited,       \* ms slept since that error was caught
    inFlight,     \* ids of the messages whose webhook.send has not settled
    calls,        \* the mutating remote calls made so far, in order
    progress,     \* number of interaction.editReply calls made by updateProgress
    delays,       \* number of inter-message sleeps (RATE_LIMIT_DELAY) taken
    error,        \* the error thrown out of the call, when pc = "failed"
    result,       \* the MigrationResult returned, when pc = "done"
    payload,      \* sendMigratedMessage: payload (content, files, embeds)
    files,        \* sendMigratedMessage: files downloaded so far
    att,          \* sendMigratedMessage: index of the attachment its loop is at
    downloaded,   \* sendMigratedMessage: the attachments it fetched and how that went
    payloads,     \* the payloads handed to webhook.send for the message, in order
    category,     \* handleMigrateCategory: category.children.cache, in cache order
    textChannels, \* handleMigrateCategory: textChannels.size
    completed,    \* handleMigrateCategory: completed
    results,      \* handleMigrateCategory: results
    bulkPc,       \* position of the bulk command handler
    bulkLog,      \* what the bulk command's runs did, in order
    handlerPc,    \* concurrent command handlers: position of each one's run
    webhook,      \* concurrent command handlers: `webhook` of each one's run
    remaining,    \* concurrent command handlers: messages each has yet to replay
    liveWebhooks, \* the webhooks that exist on the forum (remote state)
    webhookLog    \* what the concurrent runs did with webhooks, in order

vars == <<pc, opts, history, all, lastId, batches, pages, messages, appliedTags,
          cur, counts, retryAfter, waited, inFlight, calls, progress, delays,
          error, result, payload, files, att, downloaded, payloads, category,
          textChannels, completed, results, bulkPc, bulkLog, handlerPc, webhook,
          remaining, liveWebhooks, webhookLog>>

\* The locals of sendMigratedMessage, the locals of handleMigrateCategory
sendVars == <<payload, files, att, downloaded, payloads>>
bulkVars == <<category, textChannels, completed, results, bulkPc, bulkLog>>
\* The runs of command handlers that are in progress at the same time
handlerVars == <<handlerPc, webhook, remaining, liveWebhooks, webhookLog>>

\* ------------------------------------------------------------------ helpers
Min(a, b) == IF a < b THEN a ELSE b

Reverse(s) == [i \in 1..Len(s) |-> s[Len(s) + 1 - i]]

RECURSIVE Digits(_)
\* String(n) for a non-negative integer n
Digits(n) ==
    LET d == <<"0", "1", "2", "3", "4", "5", "6", "7", "8", "9">>
    IN IF n < 10 THEN <<d[n + 1]>> ELSE Digits(n \div 10) \o <<d[(n % 10) + 1]>>

WhiteSpace == {" ", "\n", "\t"}

RECURSIVE TrimStart(_)
TrimStart(s) ==
    IF s # <<>> /\ Head(s) \in WhiteSpace THEN TrimStart(Tail(s)) ELSE s

RECURSIVE TrimEnd(_)
TrimEnd(s) ==
    IF s # <<>> /\ s[Len(s)] \in WhiteSpace
    THEN TrimEnd(SubSeq(s, 1, Len(s) - 1)) ELSE s

\* String.prototype.trim
Trim(s) == TrimEnd(TrimStart(s))

\* String.prototype.substring(0, n)
Substring0(s, n) == SubSeq(s, 1, Min(Len(s), IF n < 0 THEN 0 ELSE n))

RECURSIVE Join(_, _)
\* Array.prototype.join
Join(strs, sep) ==
    IF strs = <<>> THEN <<>>
    ELSE IF Len(strs) = 1 THEN strs[1]
    ELSE strs[1] \o sep \o Join(Tail(strs), sep)

\* String.prototype.startsWith
StartsWith(s, prefix) ==
    Len(s) >= Len(prefix) /\ SubSeq(s, 1, Len(prefix)) = prefix

\* (n / d).toFixed(1) for integers n >= 0 and d > 0, d even
ToFixed1(n, d) ==
    LET tenths == (n * 10 + d \div 2) \div d
    IN Digits(tenths \div 10) \o <<".">> \o Digits(tenths % 10)

KiB == 1024
MiB == 1024 * 1024
GiB == 1024 * 1024 * 1024

\* formatSize
FormatSize(bytes) ==
    IF bytes >= GiB THEN ToFixed1(bytes, GiB) \o <<" ", "G", "B">>
    ELSE IF bytes >= MiB THEN ToFixed1(bytes, MiB) \o <<" ", "M", "B">>
    ELSE IF bytes >= KiB THEN ToFixed1(bytes, KiB) \o <<" ", "K", "B">>
    ELSE Digits(bytes) \o <<" ", "B">>

NoOpts == [f \in {} |-> NULL]

\* No error thrown, no result returned (yet)
NoError == [kind |-> "none"]
NoResult == [returned |-> FALSE]
\* No payload built (yet)
NoPayload == [built |-> FALSE]

\* ----------------------------------------------------------------- messages
\* createdTimestamp of the message with snowflake id: ids grow with time and
\* two consecutive ids may carry the same timestamp.
CreatedTimestamp(id) == 1000 * ((id + 1) \div 2)

SystemMsg == [system |-> TRUE, content |-> <<>>, attachments |-> <<>>,
              embeds |-> <<>>, stickers |-> <<>>, reference |-> FALSE]
EmptyMsg == [SystemMsg EXCEPT !.system = FALSE]
BlankMsg == [EmptyMsg EXCEPT !.content = <<" ">>]
TextMsg == [EmptyMsg EXCEPT !.content = <<"h", "i">>]
\* 'image/png'. An attachment carries, besides its name, size and content
\* type, what the CDN does when its url is fetched: "ok", "http" (a response
\* that is not ok, status 404: the url has expired) or "flaky" (the fetch
\* fulfils or rejects on the network, from one fetch to the next).
ImagePng == <<"i", "m", "a", "g", "e", "/", "p", "n", "g">>
FileMsg == [EmptyMsg EXCEPT !.attachments =
                <<[name |-> <<"a", ".", "p", "n", "g">>, size |-> 1024,
                  contentType |-> ImagePng, fetch |-> "ok"]>>]

Shapes == {SystemMsg, EmptyMsg, BlankMsg, TextMsg, FileMsg}

\* message.author of the message with snowflake id: two users take turns, the
\* second of them is a bot.
Author(id) == [id |-> 100 + (id % 2), bot |-> id % 2 = 0]

Msg(i, shape) ==
    [id |-> i, createdTimestamp |-> CreatedTimestamp(i), author |-> Author(i)]
    @@ shape

Histories ==
    UNION {{[i \in 1..n |-> Msg(i, f[i])] : f \in [1..n -> Shapes]} : n \in 0..MaxMsgs}

TextHistories ==
    {[i \in 1..n |-> Msg(i, TextMsg)] : n \in 0..MaxHistory}

\* ------------------------------------------------------------ initial states
InitRun ==
    /\ opts = NoOpts
    /\ all = <<>>
    /\ lastId = NULL
    /\ batches = 0
    /\ pages = <<>>
    /\ messages = <<>>
    /\ appliedTags = <<>>
    /\ cur = 0
    /\ counts = [messageCount |-> 0, attachmentCount |-> 0,
                 skippedCount |-> 0, errorCount |-> 0]
    /\ retryAfter = 0
    /\ waited = 0
    /\ inFlight = {}
    /\ calls = <<>>
    /\ progress = 0
    /\ delays = 0
    /\ error = NoError
    /\ result = NoResult
    /\ payload = NoPayload
    /\ files = <<>>
    /\ att = 0
    /\ downloaded = <<>>
    /\ payloads = <<>>

\* No bulk command is being handled.
InitNoBulk ==
    /\ category = <<>>
    /\ textChannels = 0
    /\ completed = 0
    /\ results = <<>>
    /\ bulkPc = "idle"
    /\ bulkLog = <<>>

\* No command handlers are modelled side by side.
InitNoHandlers ==
    /\ handlerPc = <<>>
    /\ webhook = <<>>
    /\ remaining = <<>>
    /\ liveWebhooks = {}
    /\ webhookLog = <<>>

\* A call of migrateChannel on a channel with an arbitrary short history.
Init ==
    /\ pc = "validate"
    /\ history \in Histories
    /\ InitRun
    /\ InitNoBulk
    /\ InitNoHandlers

\* A call of fetchAllMessages on a channel with an arbitrary history.
InitFetch ==
    /\ pc = "fetching"
    /\ history \in TextHistories
    /\ InitRun
    /\ InitNoBulk
    /\ InitNoHandlers

\* --------------------------------------------------------------- updateProgress
\* interaction.editReply is called and whatever it throws is swallowed: the
\* outcome of the call leaves no trace in the run.
UpdateProgress(n) ==
    \E ok \in BOOLEAN : progress' = progress + n

Throw(err) ==
    /\ pc' = "failed"
    /\ error' = err

\* An entry of the log of remote calls that change something: createPost,
\* createWebhook, send (a webhook.send starts), settle (it fulfils or rejects),
\* deleteWebhook, notify (sourceChannel.send), edit (sourceChannel.edit).
Call(op, msg, res) == [op |-> op, msg |-> msg, res |-> res]

\* ------------------------------------------------------------ fetchAllMessages
\* channel.messages.fetch({limit, before}): the `limit` newest messages older
\* than `before` (the newest of all when no cursor is given), newest first.
RemotePage(hist, before, limit) ==
    LET older == SelectSeq(hist, LAMBDA m : before = NULL \/ m.id < before)
        n == Len(older)
    IN [i \in 1..Min(limit, n) |-> older[n + 1 - i]]

\* The cursor taken from the newest message of the batch: batch.first().id
NextCursorFirst(batch) == batch[1].id

\* The cursor left where it was after a non-empty batch.
NextCursorStuck(batch) == lastId

\* The cursor fetchAllMessages keeps after a non-empty batch: batch.last().id
NextCursor(batch) == batch[Len(batch)].id

\* all returned as collected, newest first.
FetchReturnUnreversed(fetched) == fetched

\* What fetchAllMessages returns: all.reverse()
FetchReturn(fetched) == Reverse(fetched)

\* The while loop of fetchAllMessages asking again for a page whose fetch
\* failed.
FetchPageRetrying ==
    /\ pc = "fetching"
    /\ \E ok \in BOOLEAN :
        IF ~ok
        THEN /\ UNCHANGED <<pc, error>>
             /\ pages' = Append(pages, [before |-> lastId, size |-> -1, last |-> NULL])
             /\ UNCHANGED <<all, lastId, batches, messages, progress>>
        ELSE LET batch == RemotePage(history, lastId, PAGE_LIMIT)
             IN /\ pages' = Append(pages,
                    [before |-> lastId, size |-> Len(batch),
                     last |-> IF batch = <<>> THEN NULL ELSE batch[Len(batch)].id])
                /\ IF Len(batch) = 0
                   THEN /\ messages' = FetchReturn(all)
                        /\ pc' = "fetched"
                        /\ UNCHANGED <<all, lastId, batches, progress>>
                   ELSE /\ all' = all \o batch
                        /\ lastId' = NextCursor(batch)
                        /\ batches' = batches + 1
                        /\ IF (batches + 1) % FETCH_PROGRESS_EVERY = 0
                           THEN UpdateProgress(1)
                           ELSE UNCHANGED progress
                        /\ UNCHANGED <<pc, messages>>
                /\ UNCHANGED error
    /\ UNCHANGED <<opts, history, appliedTags, cur, counts, retryAfter, waited,
                   inFlight, calls, delays, result>>
    /\ UNCHANGED <<sendVars, bulkVars, handlerVars>>

\* One iteration of the while loop of fetchAllMessages.
FetchPage ==
    /\ pc = "fetching"
    /\ \E ok \in BOOLEAN :
        IF ~ok
        THEN \* the fetch rejects: the error leaves fetchAllMessages and the caller
             /\ Throw([kind |-> "FetchFailed"])
             /\ pages' = Append(pages, [before |-> lastId, size |-> -1, last |-> NULL])
             /\ UNCHANGED <<all, lastId, batches, messages, progress>>
        ELSE LET batch == RemotePage(history, lastId, PAGE_LIMIT)
             IN /\ pages' = Append(pages,
                    [before |-> lastId, size |-> Len(batch),
                     last |-> IF batch = <<>> THEN NULL ELSE batch[Len(batch)].id])
                /\ IF Len(batch) = 0
                   THEN /\ messages' = FetchReturn(all)
                        /\ pc' = "fetched"
                        /\ UNCHANGED <<all, lastId, batches, progress>>
                   ELSE /\ all' = all \o batch
                        /\ lastId' = NextCursor(batch)
                        /\ batches' = batches + 1
                        /\ IF (batches + 1) % FETCH_PROGRESS_EVERY = 0
                           THEN UpdateProgress(1)
                           ELSE UNCHANGED progress
                        /\ UNCHANGED <<pc, messages>>
                /\ UNCHANGED error
    /\ UNCHANGED <<opts, history, appliedTags, cur, counts, retryAfter, waited,
                   inFlight, calls, delays, result>>
    /\ UNCHANGED <<sendVars, bulkVars, handlerVars>>

\* ------------------------------------------------------------ migrateChannel
ChannelTypes == {"GuildText", "GuildVoice", "GuildForum"}

SourcePermissions == {"ViewChannel", "ReadMessageHistory"}
ForumPermissions == {"SendMessages", "ManageWebhooks", "CreatePublicThreads"}

\* The permission checks stopping at the first missing permission.
MissingPermissionsFirstOnly(srcPerms, frmPerms) ==
    IF "ViewChannel" \notin srcPerms THEN <<"View Channel (source)">>
    ELSE IF "ReadMessageHistory" \notin srcPerms
    THEN <<"Read Message History (source)">>
    ELSE IF "SendMessages" \notin frmPerms THEN <<"Send Messages (forum)">>
    ELSE IF "ManageWebhooks" \notin frmPerms THEN <<"Manage Webhooks (forum)">>
    ELSE IF "CreatePublicThreads" \notin frmPerms THEN <<"Create Posts (forum)">>
    ELSE <<>>

\* The list `missing` built by the permission checks, in the order of the code.
MissingPermissions(srcPerms, frmPerms) ==
    (IF "ViewChannel" \in srcPerms THEN <<>> ELSE <<"View Channel (source)">>)
    \o (IF "ReadMessageHistory" \in srcPerms THEN <<>>
        ELSE <<"Read Message History (source)">>)
    \o (IF "SendMessages" \in frmPerms THEN <<>> ELSE <<"Send Messages (forum)">>)
    \o (IF "ManageWebhooks" \in frmPerms THEN <<>> ELSE <<"Manage Webhooks (forum)">>)
    \o (IF "CreatePublicThreads" \in frmPerms THEN <<>> ELSE <<"Create Posts (forum)">>)

\* Validate inputs and permission checks, then the first progress update.
Validate ==
    /\ pc = "validate"
    /\ \E st \in ChannelTypes, ft \in ChannelTypes,
          sp \in SUBSET SourcePermissions, fp \in SUBSET ForumPermissions :
        /\ opts' = opts @@ [sourceType |-> st, forumType |-> ft,
                            srcPerms |-> sp, frmPerms |-> fp]
        /\ IF st # "GuildText"
           THEN Throw([kind |-> "SourceType"]) /\ UNCHANGED progress
           ELSE IF ft # "GuildForum"
           THEN Throw([kind |-> "ForumType"]) /\ UNCHANGED progress
           ELSE IF Len(MissingPermissions(sp, fp)) > 0
           THEN /\ Throw([kind |-> "MissingPermissions",
                          missing |-> MissingPermissions(sp, fp)])
                /\ UNCHANGED progress
           ELSE /\ pc' = "fetchStart"
                /\ UpdateProgress(1)
                /\ UNCHANGED error
    /\ UNCHANGED <<history, all, lastId, batches, pages, messages, appliedTags,
                   cur, counts, retryAfter, waited, inFlight, calls, delays,
                   result>>
    /\ UNCHANGED <<sendVars, bulkVars, handlerVars>>

\* The pinned messages of the channel form any subset of its history;
\* fetchPinned returns them newest first.
PinnedLists(hist) ==
    {Reverse(SelectSeq(hist, LAMBDA m : m.id \in P)) :
        P \in SUBSET {hist[i].id : i \in 1..Len(hist)}}

\* if (pinsOnly) { fetchPinned, reverse } else { fetchAllMessages }
FetchMessages ==
    /\ pc = "fetchStart"
    /\ \E po \in BOOLEAN :
        /\ opts' = opts @@ [pinsOnly |-> po]
        /\ IF po
           THEN \E ok \in BOOLEAN :
                IF ok
                THEN /\ \E pins \in PinnedLists(history) : messages' = Reverse(pins)
                     /\ pc' = "fetched"
                     /\ UNCHANGED error
                ELSE /\ Throw([kind |-> "FetchFailed"])
                     /\ UNCHANGED messages
           ELSE /\ pc' = "fetching"
                /\ UNCHANGED <<messages, error>>
    /\ UNCHANGED <<history, all, lastId, batches, pages, appliedTags, cur, counts,
                   retryAfter, waited, inFlight, calls, progress, delays, result>>
    /\ UNCHANGED <<sendVars, bulkVars, handlerVars>>

\* --------------------------------------------------------------- forum tags
\* One code unit of String.prototype.toLowerCase
LowerChar(c) ==
    CASE c = "A" -> "a" [] c = "B" -> "b" [] c = "C" -> "c" [] c = "D" -> "d"
      [] c = "E" -> "e" [] c = "F" -> "f" [] c = "G" -> "g" [] c = "H" -> "h"
      [] c = "I" -> "i" [] c = "J" -> "j" [] c = "K" -> "k" [] c = "L" -> "l"
      [] c = "M" -> "m" [] c = "N" -> "n" [] c = "O" -> "o" [] c = "P" -> "p"
      [] c = "Q" -> "q" [] c = "R" -> "r" [] c = "S" -> "s" [] c = "T" -> "t"
      [] c = "U" -> "u" [] c = "V" -> "v" [] c = "W" -> "w" [] c = "X" -> "x"
      [] c = "Y" -> "y" [] c = "Z" -> "z" [] OTHER -> c

ToLowerCase(s) == [i \in 1..Len(s) |-> LowerChar(s[i])]

\* What Array.prototype.find returns when `hits` are the elements satisfying
\* its predicate, in order: <<the first of them>>, <<>> (undefined) when none
First(hits) == IF hits = <<>> THEN <<>> ELSE <<Head(hits)>>

MigratedName == <<"m", "i", "g", "r", "a", "t", "e", "d">>

TagMigrated == [id |-> 11, name |-> <<"M", "i", "g", "r", "a", "t", "e", "d">>]
TagArchive == [id |-> 12, name |-> <<"A", "r", "c", "h", "i", "v", "e">>]
TagFoo == [id |-> 13, name |-> <<"F", "o", "o">>]

\* forumChannel.availableTags of the forums considered
ForumTagLists == {<<>>, <<TagMigrated, TagArchive>>, <<TagArchive, TagFoo>>}

\* opts.tagName of the calls considered (<<>>: null or "", no tag requested)
TagNames == {<<>>, <<"f", "o", "o">>, <<"M", "I", "G", "R", "A", "T", "E", "D">>}

\* The explicit tag name compared without lowering the case.
ExplicitTagCaseSensitive(tags, tagName) ==
    First(SelectSeq(tags, LAMBDA t : t.name = tagName))

\* The tag found for an explicit tag name
ExplicitTag(tags, tagName) ==
    First(SelectSeq(tags, LAMBDA t : ToLowerCase(t.name) = ToLowerCase(tagName)))

\* The tag used when no tag was applied and the forum has tags
FallbackTag(tags) ==
    First(SelectSeq(tags, LAMBDA t : ToLowerCase(t.name) = MigratedName))

\* appliedTags after both tag blocks, for a call whose explicit tag (if any)
\* was found
ResolveTags(tags, tagName) ==
    LET explicit == IF tagName # <<>> THEN <<ExplicitTag(tags, tagName)[1].id>> ELSE <<>>
    IN IF Len(tags) > 0 /\ Len(explicit) = 0 /\ FallbackTag(tags) # <<>>
       THEN <<FallbackTag(tags)[1].id>>
       ELSE explicit

\* forumChannel.availableTags.map(t => t.name).join(', ') || '(none)'
AvailableNames(tags) ==
    LET joined == Join([i \in 1..Len(tags) |-> tags[i].name], <<",", " ">>)
    IN IF joined # <<>> THEN joined ELSE <<"(", "n", "o", "n", "e", ")">>

\* The emptiness check made only once the post has been created.
PrepareCreateAfterPost ==
    /\ pc = "fetched"
    /\ Len(messages) = 0
    /\ calls' = Append(calls, Call("createPost", 0, "ok"))
    /\ Throw([kind |-> "NoMessages"])
    /\ UNCHANGED <<opts, history, all, lastId, batches, pages, messages,
                   appliedTags, cur, counts, retryAfter, waited, inFlight,
                   progress, delays, result>>
    /\ UNCHANGED <<sendVars, bulkVars, handlerVars>>

\* messages.length check, second progress update, tag resolution, title, header.
PrepareCreate ==
    /\ pc = "fetched"
    /\ IF Len(messages) = 0
       THEN /\ Throw([kind |-> "NoMessages"])
            /\ UNCHANGED <<opts, appliedTags, progress>>
       ELSE /\ UpdateProgress(1)
            /\ \E tn \in TagNames, tags \in ForumTagLists :
                /\ opts' = opts @@ [tagName |-> tn, availableTags |-> tags]
                /\ IF tn # <<>> /\ ExplicitTag(tags, tn) = <<>>
                   THEN /\ Throw([kind |-> "TagNotFound", tagName |-> tn,
                                  available |-> AvailableNames(tags)])
                        /\ UNCHANGED appliedTags
                   ELSE /\ appliedTags' = ResolveTags(tags, tn)
                        /\ pc' = "createPost"
                        /\ UNCHANGED error
    /\ UNCHANGED <<history, all, lastId, batches, pages, messages, cur, counts,
                   retryAfter, waited, inFlight, calls, delays, result>>
    /\ UNCHANGED <<sendVars, bulkVars, handlerVars>>

\* --------------------------------------------------------- sendMigratedMessage
\* '↩️ *replying to an earlier message*\n'
ReplyNote ==
    <<"U+21A9", "U+FE0F", " ", "*", "r", "e", "p", "l", "y", "i", "n", "g", " ",
      "t", "o", " ", "a", "n", " ", "e", "a", "r", "l", "i", "e", "r", " ",
      "m", "e", "s", "s", "a", "g", "e", "*", "\n">>

\* '\n-# 🏷️ Sticker: '
StickerNote ==
    <<"\n", "-", "#", " ", "U+D83C", "U+DFF7", "U+FE0F", " ",
      "S", "t", "i", "c", "k", "e", "r", ":", " ">>

\* `\n-# <t:${Math.floor(createdTimestamp / 1000)}:f>`
TimestampSuffix(m) ==
    <<"\n", "-", "#", " ", "<", "t", ":">>
    \o Digits(m.createdTimestamp \div 1000) \o <<":", "f", ">">>

\* content before the timestamp is appended: text, reply note, sticker note
MarkedContent(m) ==
    LET replied == IF m.reference THEN ReplyNote \o m.content ELSE m.content
    IN IF Len(m.stickers) > 0
       THEN replied \o StickerNote
            \o Join([i \in 1..Len(m.stickers) |-> m.stickers[i].name], <<",", " ">>)
       ELSE replied

\* content with the timestamp appended, truncated to the character limit
BuildContent(m) ==
    LET c == MarkedContent(m)
        suffix == TimestampSuffix(m)
    IN (IF Len(c) + Len(suffix) > MAX_CONTENT_LEN
        THEN Substring0(c, MAX_CONTENT_LEN - Len(suffix) - 4) \o <<"U+2026">>
        ELSE c) \o suffix

\* sendMigratedMessage returns before building a payload
NothingToSend(m) ==
    /\ Trim(BuildContent(m)) = Trim(TimestampSuffix(m))
    /\ Len(m.attachments) = 0
    /\ Len(m.embeds) = 0

\* ------------------------------------------------------------- send outcomes
\* err.status and err.code of the rejections considered that are neither a rate
\* limit nor "Missing Access": a server error, "Missing Permissions"
OtherStatuses == {500}
OtherCodes == {50013}

\* Outcomes of webhook.send: fulfilled, or rejected with an error that has a
\* status, a code and a retryAfter (0: the field is absent). kind is what the
\* remote did: "rate" is its rate-limit signal, in either of its two forms.
SendOutcomes ==
    {[kind |-> "ok", status |-> 0, code |-> 0, retryAfter |-> 0]}
    \cup {[kind |-> "other", status |-> st, code |-> 0, retryAfter |-> 0] :
            st \in OtherStatuses}
    \cup {[kind |-> "other", status |-> 0, code |-> c, retryAfter |-> 0] :
            c \in OtherCodes}
    \cup {[kind |-> "rate", status |-> RATE_LIMITED, code |-> 0, retryAfter |-> r] :
            r \in 0..MaxRetryAfter}
    \cup {[kind |-> "rate", status |-> 0, code |-> RATE_LIMITED, retryAfter |-> r] :
            r \in 0..MaxRetryAfter}

\* Every rejection taken for a rate limit.
IsRateLimitAnyError(err) == err.status # 0 \/ err.code # 0

\* err.status === 429 || err.code === 429
IsRateLimit(err) == err.status = RATE_LIMITED \/ err.code = RATE_LIMITED

\* retryAfter taken as milliseconds: the conversion from seconds is left out.
RetryDelayUnscaled(r) == IF r # 0 THEN r ELSE DEFAULT_RETRY_AFTER

\* (err.retryAfter || 5) * 1000
RetryDelay(r) == (IF r # 0 THEN r ELSE DEFAULT_RETRY_AFTER) * 1000

\* ------------------------------------------------------ post and webhook
\* Outcomes of forumChannel.threads.create
CreateOutcomes ==
    {[kind |-> "ok", code |-> 0], [kind |-> "other", code |-> MISSING_ACCESS]}
    \cup {[kind |-> "other", code |-> c] : c \in OtherCodes}

CreatePost ==
    /\ pc = "createPost"
    /\ \E o \in CreateOutcomes :
        /\ calls' = Append(calls, Call("createPost", 0, o.kind))
        /\ IF o.kind = "ok"
           THEN pc' = "createWebhook" /\ UNCHANGED error
           ELSE IF o.code = MISSING_ACCESS
           THEN Throw([kind |-> "CreatePostAccess"])
           ELSE Throw([kind |-> "CreatePostFailed"])
    /\ UNCHANGED <<opts, history, all, lastId, batches, pages, messages,
                   appliedTags, cur, counts, retryAfter, waited, inFlight,
                   progress, delays, result>>
    /\ UNCHANGED <<sendVars, bulkVars, handlerVars>>

CreateWebhook ==
    /\ pc = "createWebhook"
    /\ \E res \in {"ok", "other"} :
        /\ calls' = Append(calls, Call("createWebhook", 0, res))
        /\ IF res = "ok"
           THEN pc' = "replay" /\ cur' = 1 /\ UNCHANGED error
           ELSE Throw([kind |-> "CreateWebhookFailed"]) /\ UNCHANGED cur
    /\ UNCHANGED <<opts, history, all, lastId, batches, pages, messages,
                   appliedTags, counts, retryAfter, waited, inFlight, progress,
                   delays, result>>
    /\ UNCHANGED <<sendVars, bulkVars, handlerVars>>

\* ------------------------------------------------------------------- replay
IsSystem(m) == m.system

IsEmpty(m) ==
    /\ m.content = <<>>
    /\ Len(m.attachments) = 0
    /\ Len(m.embeds) = 0
    /\ Len(m.stickers) = 0

Bump(c, field, n) == [c EXCEPT ![field] = @ + n]

\* skippedCount++; continue: the skipped message left out of messageCount
SkipMessageUncounted(c) == Bump(c, "skippedCount", 1)

\* skippedCount++; messageCount++; continue
SkipMessage(c) == Bump(Bump(c, "skippedCount", 1), "messageCount", 1)

\* sendMigratedMessage fulfilled: attachmentCount += message.attachments.size
Delivered(c, m) == Bump(c, "attachmentCount", Len(m.attachments))

\* sendMigratedMessage called without await: the loop goes on while the send
\* is in flight.
ReplayNextNoAwait ==
    /\ pc = "replay"
    /\ IF cur > Len(messages)
       THEN /\ pc' = "cleanup"
            /\ UNCHANGED <<cur, counts, inFlight, calls>>
       ELSE LET m == messages[cur]
            IN IF IsSystem(m) \/ IsEmpty(m)
               THEN /\ counts' = SkipMessage(counts)
                    /\ cur' = cur + 1
                    /\ UNCHANGED <<pc, inFlight, calls>>
               ELSE /\ IF NothingToSend(m)
                       THEN UNCHANGED <<inFlight, calls>>
                       ELSE /\ calls' = Append(calls, Call("send", m.id, "start"))
                            /\ inFlight' = inFlight \cup {m.id}
                    /\ counts' = Delivered(counts, m)
                    /\ pc' = "afterSend"
                    /\ UNCHANGED cur
    /\ UNCHANGED <<opts, history, all, lastId, batches, pages, messages,
                   appliedTags, retryAfter, waited, progress, delays, error,
                   result>>
    /\ UNCHANGED <<sendVars, bulkVars, handlerVars>>

\* The head of the for loop: leave the loop, skip the message, or call
\* sendMigratedMessage, which returns at once or starts webhook.send.
ReplayNext ==
    /\ pc = "replay"
    /\ IF cur > Len(messages)
       THEN /\ pc' = "cleanup"
            /\ UNCHANGED <<cur, counts, inFlight, calls>>
       ELSE LET m == messages[cur]
            IN IF IsSystem(m) \/ IsEmpty(m)
               THEN /\ counts' = SkipMessage(counts)
                    /\ cur' = cur + 1
                    /\ UNCHANGED <<pc, inFlight, calls>>
               ELSE IF NothingToSend(m)
               THEN /\ counts' = Delivered(counts, m)
                    /\ pc' = "afterSend"
                    /\ UNCHANGED <<cur, inFlight, calls>>
               ELSE /\ calls' = Append(calls, Call("send", m.id, "start"))
                    /\ inFlight' = inFlight \cup {m.id}
                    /\ pc' = "sending"
                    /\ UNCHANGED <<cur, counts>>
    /\ UNCHANGED <<opts, history, all, lastId, batches, pages, messages,
                   appliedTags, retryAfter, waited, progress, delays, error,
                   result>>
    /\ UNCHANGED <<sendVars, bulkVars, handlerVars>>

\* The first webhook.send of a message settles.
SendSettles ==
    /\ pc = "sending"
    /\ LET m == messages[cur]
       IN \E o \in SendOutcomes :
           /\ calls' = Append(calls, Call("settle", m.id, o.kind))
           /\ inFlight' = inFlight \ {m.id}
           /\ IF o.kind = "ok"
              THEN /\ counts' = Delivered(counts, m)
                   /\ pc' = "afterSend"
                   /\ UNCHANGED <<retryAfter, waited>>
              ELSE IF IsRateLimit(o)
              THEN /\ retryAfter' = o.retryAfter
                   /\ waited' = 0
                   /\ pc' = "backoff"
                   /\ UNCHANGED counts
              ELSE /\ counts' = Bump(counts, "errorCount", 1)
                   /\ pc' = "afterSend"
                   /\ UNCHANGED <<retryAfter, waited>>
    /\ UNCHANGED <<opts, history, all, lastId, batches, pages, messages,
                   appliedTags, cur, progress, delays, error, result>>
    /\ UNCHANGED <<sendVars, bulkVars, handlerVars>>

\* await sleep(retryAfter + 500), then the second sendMigratedMessage starts.
Backoff ==
    /\ pc = "backoff"
    /\ waited' = waited + RetryDelay(retryAfter) + RETRY_MARGIN
    /\ calls' = Append(calls, Call("send", messages[cur].id, "start"))
    /\ inFlight' = inFlight \cup {messages[cur].id}
    /\ pc' = "retrying"
    /\ UNCHANGED <<opts, history, all, lastId, batches, pages, messages,
                   appliedTags, cur, counts, retryAfter, progress, delays, error,
                   result>>
    /\ UNCHANGED <<sendVars, bulkVars, handlerVars>>

\* The retry settles: a second failure of any kind is counted, not retried.
RetrySettles ==
    /\ pc = "retrying"
    /\ LET m == messages[cur]
       IN \E o \in SendOutcomes :
           /\ calls' = Append(calls, Call("settle", m.id, o.kind))
           /\ inFlight' = inFlight \ {m.id}
           /\ counts' = IF o.kind = "ok" THEN Delivered(counts, m)
                        ELSE Bump(counts, "errorCount", 1)
           /\ pc' = "afterSend"
    /\ UNCHANGED <<opts, history, all, lastId, batches, pages, messages,
                   appliedTags, cur, retryAfter, waited, progress, delays, error,
                   result>>
    /\ UNCHANGED <<sendVars, bulkVars, handlerVars>>

\* messageCount++, the progress update, the inter-message sleep.
AfterSend ==
    /\ pc = "afterSend"
    /\ counts' = Bump(counts, "messageCount", 1)
    /\ IF (counts.messageCount + 1) % PROGRESS_INTERVAL = 0
       THEN UpdateProgress(1)
       ELSE UNCHANGED progress
    /\ delays' = delays + 1
    /\ cur' = cur + 1
    /\ retryAfter' = 0
    /\ waited' = 0
    /\ pc' = "replay"
    /\ UNCHANGED <<opts, history, all, lastId, batches, pages, messages,
                   appliedTags, inFlight, calls, error, result>>
    /\ UNCHANGED <<sendVars, bulkVars, handlerVars>>

\* ------------------------------------------------------- after the replay
\* The webhook is deleted after the loop only when the replay met no error.
CleanupUnlessErrors ==
    /\ pc = "cleanup"
    /\ IF counts.errorCount = 0
       THEN \E res \in {"ok", "other"} :
                calls' = Append(calls, Call("deleteWebhook", 0, res))
       ELSE UNCHANGED calls
    /\ pc' = "notify"
    /\ UNCHANGED <<opts, history, all, lastId, batches, pages, messages,
                   appliedTags, cur, counts, retryAfter, waited, inFlight,
                   progress, delays, error, result>>
    /\ UNCHANGED <<sendVars, bulkVars, handlerVars>>

\* finally { try { await webhook.delete(...) } catch {} }
Cleanup ==
    /\ pc = "cleanup"
    /\ \E res \in {"ok", "other"} :
        calls' = Append(calls, Call("deleteWebhook", 0, res))
    /\ pc' = "notify"
    /\ UNCHANGED <<opts, history, all, lastId, batches, pages, messages,
                   appliedTags, cur, counts, retryAfter, waited, inFlight,
                   progress, delays, error, result>>
    /\ UNCHANGED <<sendVars, bulkVars, handlerVars>>

\* The message sourceChannel.send posts in the source channel (the first line
\* of its content: '## 📋 This channel has been migrated'); its id is newer
\* than every id of the channel.
Notification(hist) ==
    Msg(Len(hist) + 1,
        [EmptyMsg EXCEPT !.content =
            <<"#", "#", " ", "U+D83D", "U+DCCB", " ", "T", "h", "i", "s", " ",
              "c", "h", "a", "n", "n", "e", "l", " ", "h", "a", "s", " ",
              "b", "e", "e", "n", " ", "m", "i", "g", "r", "a", "t", "e", "d">>])

\* sourceChannel.send awaited outside any try: its rejection leaves the call.
NotifySourcePropagates ==
    /\ pc = "notify"
    /\ \E res \in {"ok", "other"} :
        /\ calls' = Append(calls, Call("notify", 0, res))
        /\ IF res = "ok"
           THEN /\ history' = Append(history, Notification(history))
                /\ pc' = "archive"
                /\ UNCHANGED error
           ELSE Throw([kind |-> "NotifyFailed"]) /\ UNCHANGED history
    /\ UNCHANGED <<opts, all, lastId, batches, pages, messages,
                   appliedTags, cur, counts, retryAfter, waited, inFlight,
                   progress, delays, result>>
    /\ UNCHANGED <<sendVars, bulkVars, handlerVars>>

\* try { await sourceChannel.send(...) } catch {}: when the send fulfils the
\* source channel has one more message.
NotifySource ==
    /\ pc = "notify"
    /\ \E res \in {"ok", "other"} :
        /\ calls' = Append(calls, Call("notify", 0, res))
        /\ history' = IF res = "ok" THEN Append(history, Notification(history))
                      ELSE history
    /\ pc' = "archive"
    /\ UNCHANGED <<opts, all, lastId, batches, pages, messages,
                   appliedTags, cur, counts, retryAfter, waited, inFlight,
                   progress, delays, error, result>>
    /\ UNCHANGED <<sendVars, bulkVars, handlerVars>>

\* The source channel locked whether or not archiveSource was given.
ArchiveAlways ==
    /\ pc = "archive"
    /\ \E as \in BOOLEAN :
        /\ opts' = opts @@ [archiveSource |-> as]
        /\ \E res \in {"ok", "other"} :
                calls' = Append(calls, Call("edit", 0, res))
    /\ result' = [returned |-> TRUE] @@ counts
    /\ pc' = "done"
    /\ UNCHANGED <<history, all, lastId, batches, pages, messages, appliedTags,
                   cur, counts, retryAfter, waited, inFlight, progress, delays,
                   error>>
    /\ UNCHANGED <<sendVars, bulkVars, handlerVars>>

\* if (archiveSource) { try { await sourceChannel.edit(...) } catch {} }, return
ArchiveAndReturn ==
    /\ pc = "archive"
    /\ \E as \in BOOLEAN :
        /\ opts' = opts @@ [archiveSource |-> as]
        /\ IF as
           THEN \E res \in {"ok", "other"} :
                    calls' = Append(calls, Call("edit", 0, res))
           ELSE UNCHANGED calls
    /\ result' = [returned |-> TRUE] @@ counts
    /\ pc' = "done"
    /\ UNCHANGED <<history, all, lastId, batches, pages, messages, appliedTags,
                   cur, counts, retryAfter, waited, inFlight, progress, delays,
                   error>>
    /\ UNCHANGED <<sendVars, bulkVars, handlerVars>>

\* ------------------------------------------- sendMigratedMessage, in detail
MAX_FILE_SIZE == 25 * 1024 * 1024
\* files sent with one message at most
FILE_CAP == 10

\* `\n-# ⚠️ Skipped large file: **${attachment.name}** (${formatSize(attachment.size)})`
SkippedLargeNote(a) ==
    <<"\n", "-", "#", " ", "U+26A0", "U+FE0F", " ", "S", "k", "i", "p", "p",
      "e", "d", " ", "l", "a", "r", "g", "e", " ", "f", "i", "l", "e", ":",
      " ", "*", "*">>
    \o a.name \o <<"*", "*", " ", "(">> \o FormatSize(a.size) \o <<")">>

\* err.message of a failed download: `HTTP ${resp.status}` or what fetch threw
DownloadError(res) ==
    IF res = "http" THEN <<"H", "T", "T", "P", " ", "4", "0", "4">>
    ELSE <<"f", "e", "t", "c", "h", " ", "f", "a", "i", "l", "e", "d">>

\* `\n-# ⚠️ Could not download: **${attachment.name}** — ${err.message}`
CouldNotDownloadNote(a, res) ==
    <<"\n", "-", "#", " ", "U+26A0", "U+FE0F", " ", "C", "o", "u", "l", "d",
      " ", "n", "o", "t", " ", "d", "o", "w", "n", "l", "o", "a", "d", ":",
      " ", "*", "*">>
    \o a.name \o <<"*", "*", " ", "U+2014", " ">> \o DownloadError(res)

\* `\n-# ⚠️ ${files.length - 10} additional file(s) could not be included (10-file limit per message)`
OverCapNote(n) ==
    <<"\n", "-", "#", " ", "U+26A0", "U+FE0F", " ">> \o Digits(n - FILE_CAP) \o
        <<" ", "a", "d", "d", "i", "t", "i", "o", "n", "a", "l", " ", "f", "i",
      "l", "e", "(", "s", ")", " ", "c", "o", "u", "l", "d", " ", "n", "o",
      "t", " ", "b", "e", " ", "i", "n", "c", "l", "u", "d", "e", "d", " ",
      "(", "1", "0", "-", "f", "i", "l", "e", " ", "l", "i", "m", "i", "t",
      " ", "p", "e", "r", " ", "m", "e", "s", "s", "a", "g", "e", ")">>

\* message.embeds.filter(e => e.data?.type === 'rich')
RichEmbeds(m) == SelectSeq(m.embeds, LAMBDA e : e.type = "rich")

\* Lines 343-383: the content is built; the function returns at once when
\* there is nothing to send (the caller then adds message.attachments.size and
\* counts the message), else the payload is started.
SendBuild ==
    /\ pc = "transform"
    /\ LET m == messages[cur]
       IN IF NothingToSend(m)
          THEN /\ counts' = Bump(Delivered(counts, m), "messageCount", 1)
               /\ pc' = "counted"
               /\ UNCHANGED <<payload, files, att, downloaded, payloads>>
          ELSE /\ payload' = [built |-> TRUE, content |-> BuildContent(m),
                              files |-> <<>>, embeds |-> <<>>]
               /\ files' = <<>>
               /\ downloaded' = <<>>
               /\ att' = 1
               /\ UNCHANGED payloads
               /\ pc' = "attachments"
               /\ UNCHANGED counts
    /\ UNCHANGED <<opts, history, all, lastId, batches, pages, messages,
                   appliedTags, cur, retryAfter, waited, inFlight, calls,
                   progress, delays, error, result, bulkVars, handlerVars>>

\* An attachment of exactly the size limit taken for too large.
TooLargeAtLimit(a) == a.size >= MAX_FILE_SIZE

\* attachment.size > MAX_FILE_SIZE
TooLarge(a) == a.size > MAX_FILE_SIZE

\* How `await fetch(attachment.url)` and the read of the response can end
FetchOutcomes(a) == IF a.fetch = "flaky" THEN {"ok", "network"} ELSE {a.fetch}

\* attachment.name || 'attachment'
FileName(a) ==
    IF a.name # <<>> THEN a.name
    ELSE <<"a", "t", "t", "a", "c", "h", "m", "e", "n", "t">>

\* The loop over message.attachments without its try/catch: a failed download
\* rejects sendMigratedMessage and the caller counts an error.
SendAttachmentThrowing ==
    /\ pc = "attachments"
    /\ att <= Len(messages[cur].attachments)
    /\ LET a == messages[cur].attachments[att]
       IN IF TooLarge(a)
          THEN /\ payload' = [payload EXCEPT !.content = @ \o SkippedLargeNote(a)]
               /\ UNCHANGED <<files, downloaded, counts, pc>>
          ELSE \E res \in FetchOutcomes(a) :
               /\ downloaded' = Append(downloaded, [att |-> att, res |-> res])
               /\ IF res = "ok"
                  THEN /\ files' = Append(files, FileName(a))
                       /\ UNCHANGED <<payload, counts, pc>>
                  ELSE /\ counts' = Bump(Bump(counts, "errorCount", 1),
                                         "messageCount", 1)
                       /\ pc' = "counted"
                       /\ UNCHANGED <<payload, files>>
    /\ att' = att + 1
    /\ UNCHANGED <<payloads, opts, history, all, lastId, batches, pages, messages,
                   appliedTags, cur, retryAfter, waited, inFlight, calls,
                   progress, delays, error, result, bulkVars, handlerVars>>

\* One iteration of the loop over message.attachments: an attachment over the
\* size limit gets its note and is not fetched; any other is fetched and
\* becomes a file, or gets its note when the download fails; what a download
\* does is up to the CDN and the network at the time of the fetch.
SendAttachment ==
    /\ pc = "attachments"
    /\ att <= Len(messages[cur].attachments)
    /\ LET a == messages[cur].attachments[att]
       IN IF TooLarge(a)
          THEN /\ payload' = [payload EXCEPT !.content = @ \o SkippedLargeNote(a)]
               /\ UNCHANGED <<files, downloaded>>
          ELSE \E res \in FetchOutcomes(a) :
               /\ downloaded' = Append(downloaded, [att |-> att, res |-> res])
               /\ IF res = "ok"
                  THEN /\ files' = Append(files, FileName(a))
                       /\ UNCHANGED payload
                  ELSE /\ payload' = [payload EXCEPT
                                !.content = @ \o CouldNotDownloadNote(a, res)]
                       /\ UNCHANGED files
    /\ att' = att + 1
    /\ UNCHANGED <<pc, payloads, opts, history, all, lastId, batches, pages, messages,
                   appliedTags, cur, counts, retryAfter, waited, inFlight, calls,
                   progress, delays, error, result, bulkVars, handlerVars>>

\* The last ten files kept instead of the first ten.
CappedFilesLast(fs) == SubSeq(fs, Len(fs) - FILE_CAP + 1, Len(fs))

\* files.slice(0, 10)
CappedFiles(fs) == SubSeq(fs, 1, FILE_CAP)

\* After the loop: the 10-file cap, the rich embeds, webhook.send starts.
SendPayload ==
    /\ pc = "attachments"
    /\ att > Len(messages[cur].attachments)
    /\ LET m == messages[cur]
           capped == IF Len(files) > FILE_CAP
                     THEN [payload EXCEPT !.files = CappedFiles(files),
                                          !.content = @ \o OverCapNote(Len(files))]
                     ELSE [payload EXCEPT !.files = files]
       IN /\ payload' = [capped EXCEPT !.embeds = RichEmbeds(m)]
          /\ payloads' = Append(payloads, payload')
          /\ calls' = Append(calls, Call("send", m.id, "start"))
          /\ inFlight' = inFlight \cup {m.id}
    /\ pc' = "sendingOne"
    /\ UNCHANGED <<opts, history, all, lastId, batches, pages, messages,
                   appliedTags, cur, counts, retryAfter, waited, progress,
                   delays, error, result, files, att, downloaded, bulkVars, handlerVars>>

\* The attempts made for the message so far that have settled
NumSettled == Len(SelectSeq(calls, LAMBDA c : c.op = "settle"))

\* webhook.send settles and the caller (lines 172-195) counts: a delivered
\* message adds message.attachments.size, a rate limit on the first attempt
\* leads to the one retry, any other failure adds to errorCount.
SendOneSettles ==
    /\ pc = "sendingOne"
    /\ LET m == messages[cur]
       IN \E o \in SendOutcomes :
           /\ calls' = Append(calls, Call("settle", m.id, o.kind))
           /\ inFlight' = inFlight \ {m.id}
           /\ IF o.kind = "ok"
              THEN /\ counts' = Bump(Delivered(counts, m), "messageCount", 1)
                   /\ pc' = "counted"
                   /\ UNCHANGED retryAfter
              ELSE IF NumSettled = 0 /\ IsRateLimit(o)
              THEN /\ retryAfter' = o.retryAfter
                   /\ pc' = "backoffOne"
                   /\ UNCHANGED counts
              ELSE /\ counts' = Bump(Bump(counts, "errorCount", 1), "messageCount", 1)
                   /\ pc' = "counted"
                   /\ UNCHANGED retryAfter
    /\ UNCHANGED <<opts, history, all, lastId, batches, pages, messages,
                   appliedTags, cur, waited, progress, delays, error, result,
                   sendVars, bulkVars, handlerVars>>

\* await sleep(retryAfter + 500); once the sleep is over the error and its
\* retryAfter are gone, sendMigratedMessage is called again and builds its
\* payload from scratch.
BackoffOne ==
    /\ pc = "backoffOne"
    /\ waited' = 0
    /\ retryAfter' = 0
    /\ payload' = NoPayload
    /\ files' = <<>>
    /\ att' = 0
    /\ downloaded' = <<>>
    /\ pc' = "transform"
    /\ UNCHANGED <<payloads, opts, history, all, lastId, batches, pages, messages,
                   appliedTags, cur, counts, inFlight, calls, progress,
                   delays, error, result, bulkVars, handlerVars>>

\* ------------------------------------------------------------ previewChannel
\* await updateProgress(interaction, 'Scanning channel...'), then fetchAllMessages
PreviewStart ==
    /\ pc = "preview"
    /\ UpdateProgress(1)
    /\ pc' = "fetching"
    /\ UNCHANGED <<opts, history, all, lastId, batches, pages, messages,
                   appliedTags, cur, counts, retryAfter, waited, inFlight, calls,
                   delays, error, result>>
    /\ UNCHANGED <<sendVars, bulkVars, handlerVars>>

RECURSIVE SumSize(_)
\* for (const [, att] of msg.attachments) totalSize += att.size
SumSize(atts) == IF atts = <<>> THEN 0 ELSE Head(atts).size + SumSize(Tail(atts))

\* [...msg.attachments.values()].some(a => a.contentType?.startsWith('image/'))
HasImage(m) ==
    \E i \in 1..Len(m.attachments) :
        StartsWith(m.attachments[i].contentType, <<"i", "m", "a", "g", "e", "/">>)

RECURSIVE TotalSize(_)
TotalSize(msgs) ==
    IF msgs = <<>> THEN 0
    ELSE (IF Head(msgs).system THEN 0 ELSE SumSize(Head(msgs).attachments))
         + TotalSize(Tail(msgs))

\* The statistics loop without the `continue` of its first line: a system
\* message is counted and then classified like any other.
PreviewStatsNoContinue(msgs, pins) ==
    LET user == msgs
    IN [returned |-> TRUE,
        totalMessages |-> Len(msgs),
        pinnedMessages |-> Len(pins),
        textOnly |-> Len(SelectSeq(user, LAMBDA m : Len(m.attachments) = 0)),
        withImages |-> Len(SelectSeq(user,
                          LAMBDA m : Len(m.attachments) # 0 /\ HasImage(m))),
        withFiles |-> Len(SelectSeq(user,
                          LAMBDA m : Len(m.attachments) # 0 /\ ~HasImage(m))),
        botMessages |-> Len(SelectSeq(user, LAMBDA m : m.author.bot)),
        systemMessages |-> Len(SelectSeq(msgs, LAMBDA m : m.system)),
        uniqueAuthors |-> Cardinality({user[i].author.id : i \in 1..Len(user)}),
        totalAttachSize |-> FormatSize(TotalSize(msgs))]

\* The statistics previewChannel returns for the fetched messages and the pins
\* (the channel's name, topic and creation date are passed through and left out)
PreviewStats(msgs, pins) ==
    LET user == SelectSeq(msgs, LAMBDA m : ~m.system)
    IN [returned |-> TRUE,
        totalMessages |-> Len(msgs),
        pinnedMessages |-> Len(pins),
        textOnly |-> Len(SelectSeq(user, LAMBDA m : Len(m.attachments) = 0)),
        withImages |-> Len(SelectSeq(user,
                          LAMBDA m : Len(m.attachments) # 0 /\ HasImage(m))),
        withFiles |-> Len(SelectSeq(user,
                          LAMBDA m : Len(m.attachments) # 0 /\ ~HasImage(m))),
        botMessages |-> Len(SelectSeq(user, LAMBDA m : m.author.bot)),
        systemMessages |-> Len(SelectSeq(msgs, LAMBDA m : m.system)),
        uniqueAuthors |-> Cardinality({user[i].author.id : i \in 1..Len(user)}),
        totalAttachSize |-> FormatSize(TotalSize(msgs))]

\* The preview that also posts a notice in the channel it scanned.
PreviewPinsNotifying ==
    /\ pc = "fetched"
    /\ \E pins \in PinnedLists(history) :
        result' = PreviewStats(messages, pins)
    /\ calls' = Append(calls, Call("notify", 0, "ok"))
    /\ pc' = "previewed"
    /\ UNCHANGED <<opts, history, all, lastId, batches, pages, messages,
                   appliedTags, cur, counts, retryAfter, waited, inFlight,
                   progress, delays, error>>
    /\ UNCHANGED <<sendVars, bulkVars, handlerVars>>

\* sourceChannel.messages.fetchPinned(), the statistics loop, the return
PreviewPins ==
    /\ pc = "fetched"
    /\ \E ok \in BOOLEAN :
        IF ok
        THEN /\ \E pins \in PinnedLists(history) :
                    result' = PreviewStats(messages, pins)
             /\ pc' = "previewed"
             /\ UNCHANGED error
        ELSE /\ Throw([kind |-> "FetchPinnedFailed"])
             /\ UNCHANGED result
    /\ UNCHANGED <<opts, history, all, lastId, batches, pages, messages,
                   appliedTags, cur, counts, retryAfter, waited, inFlight, calls,
                   progress, delays>>
    /\ UNCHANGED <<sendVars, bulkVars, handlerVars>>

Next ==
    \/ Validate
    \/ FetchMessages
    \/ FetchPage
    \/ PrepareCreate
    \/ CreatePost
    \/ CreateWebhook
    \/ ReplayNext
    \/ SendSettles
    \/ Backoff
    \/ RetrySettles
    \/ AfterSend
    \/ Cleanup
    \/ NotifySource
    \/ ArchiveAndReturn

Spec == Init /\ [][Next]_vars

NextFetch == FetchPage

\* Message texts of n code units
Text(n) == [i \in 1..n |-> "x"]

\* Texts around the point where the text and the timestamp suffix of a message
\* created in the first second (an 11-unit suffix) reach the character limit
Contents ==
    {<<>>, <<" ">>, Text(2), Text(MAX_CONTENT_LEN - 11), Text(MAX_CONTENT_LEN - 10),
     Text(MAX_CONTENT_LEN)}

\* 'b.zip'
NameZip == <<"b", ".", "z", "i", "p">>
\* 'application/zip'
AppZip == <<"a", "p", "p", "l", "i", "c", "a", "t", "i", "o", "n", "/", "z", "i", "p">>

\* The attachments considered: a small image that downloads, a file of
\* exactly the size limit that downloads, a small file the CDN answers 404
\* for, one whose download may fail on the network, a file over the size limit.
Attachments ==
    {FileMsg.attachments[1],
     [name |-> NameZip, size |-> MAX_FILE_SIZE, contentType |-> AppZip, fetch |-> "ok"],
     [name |-> NameZip, size |-> 2048, contentType |-> AppZip, fetch |-> "http"],
     [name |-> NameZip, size |-> 2048, contentType |-> AppZip, fetch |-> "flaky"],
     [name |-> NameZip, size |-> MAX_FILE_SIZE + 1, contentType |-> AppZip,
      fetch |-> "ok"]}

\* A small image named after its place in the list: '7.png'
Numbered(i) ==
    [FileMsg.attachments[1] EXCEPT !.name = Digits(i) \o <<".", "p", "n", "g">>]

\* Attachment lists: every list of up to MaxAttachments attachments, and two
\* lists longer than the file cap (every file downloads; one does not).
AttachmentLists ==
    UNION {[1..n -> Attachments] : n \in 0..MaxAttachments}
    \cup {[i \in 1..(FILE_CAP + 1) |-> Numbered(i)],
          [i \in 1..(FILE_CAP + 2) |->
              IF i = 2 THEN [Numbered(i) EXCEPT !.fetch = "http"]
              ELSE Numbered(i)]}

\* A message with the given text, attachments, embeds, stickers and reply mark
Rich(c, as, es, st, r) ==
    Msg(1, [system |-> FALSE, content |-> c, attachments |-> as,
            embeds |-> es, stickers |-> st, reference |-> r])

\* The messages sendMigratedMessage is called with (never a system message,
\* never an entirely empty one: the caller has skipped those): every text,
\* embed, sticker and reply mark with at most one attachment, and every longer
\* attachment list with no text or a text over the limit, with or without a
\* rich embed.
RichMessages ==
    {m \in {Rich(c, as, es, st, r) :
                c \in Contents, as \in {l \in AttachmentLists : Len(l) <= 1},
                es \in {<<>>, <<[type |-> "rich"]>>, <<[type |-> "link"]>>},
                st \in {<<>>, <<[name |-> <<"s">>]>>}, r \in BOOLEAN} :
        ~IsEmpty(m)}
    \cup {Rich(c, as, es, <<>>, FALSE) :
                c \in {<<>>, Text(MAX_CONTENT_LEN - 10)},
                as \in {l \in AttachmentLists : Len(l) > 1},
                es \in {<<>>, <<[type |-> "rich"]>>}}

\* The replay loop is at a message it does not skip: the try block of lines
\* 172-195 for that message, with sendMigratedMessage in detail.
InitSend ==
    /\ pc = "transform"
    /\ \E m \in RichMessages : messages = <<m>>
    /\ cur = 1
    /\ history = messages
    /\ opts = NoOpts
    /\ all = <<>>
    /\ lastId = NULL
    /\ batches = 0
    /\ pages = <<>>
    /\ appliedTags = <<>>
    /\ counts = [messageCount |-> 0, attachmentCount |-> 0,
                 skippedCount |-> 0, errorCount |-> 0]
    /\ retryAfter = 0
    /\ waited = 0
    /\ inFlight = {}
    /\ calls = <<>>
    /\ progress = 0
    /\ delays = 0
    /\ error = NoError
    /\ result = NoResult
    /\ payload = NoPayload
    /\ files = <<>>
    /\ att = 0
    /\ downloaded = <<>>
    /\ payloads = <<>>
    /\ InitNoBulk
    /\ InitNoHandlers

NextSend ==
    \/ SendBuild
    \/ SendAttachment
    \/ SendPayload
    \/ SendOneSettles
    \/ BackoffOne

SpecSend == InitSend /\ [][NextSend]_vars

\* A message whose one attachment is not an image
DocMsg == [EmptyMsg EXCEPT !.attachments =
                <<[name |-> NameZip, size |-> 2048, contentType |-> AppZip,
                   fetch |-> "ok"]>>]

\* Short histories of system, empty, text, image and document messages
PreviewHistories ==
    UNION {{[i \in 1..n |-> Msg(i, f[i])] : f \in [1..n -> Shapes \cup {DocMsg}]} :
            n \in 0..MaxMsgs}

\* A call of previewChannel on a channel with an arbitrary short history.
InitPreview ==
    /\ pc = "preview"
    /\ history \in PreviewHistories
    /\ InitRun
    /\ InitNoBulk
    /\ InitNoHandlers

NextPreview ==
    \/ PreviewStart
    \/ FetchPage
    \/ PreviewPins

SpecPreview == InitPreview /\ [][NextPreview]_vars

SpecFetch == InitFetch /\ [][NextFetch]_vars

\* ------------------------------------------------- handleMigrateCategory
\* An entry of the log of a bulk command: what happened ("start": migrateChannel
\* is called, "webhook": the run created its webhook, "send": it sent through
\* it, "release": it called webhook.delete, "end": migrateChannel returned or
\* threw, "cooldown": the handler slept BULK_DELAY) and for which channel, by
\* position in the category (0: none)
Event(what, channel) == [what |-> what, channel |-> channel]

\* A child channel of the category: its name, type and position
Child(name, type, position) == [name |-> name, type |-> type, position |-> position]

\* ch => ch.type === ChannelType.GuildText
IsGuildText(ch) == ch.type = "GuildText"

\* One step of the stable sort by (a, b) => a.position - b.position: `ch` goes
\* behind the channels of `sorted` whose position is not greater than its own.
RECURSIVE InsertByPosition(_, _)
InsertByPosition(ch, sorted) ==
    IF sorted = <<>> THEN <<ch>>
    ELSE IF ch.position - Head(sorted).position < 0 THEN <<ch>> \o sorted
    ELSE <<Head(sorted)>> \o InsertByPosition(ch, Tail(sorted))

\* .sort((a, b) => a.position - b.position)
RECURSIVE SortByPosition(_)
SortByPosition(chs) ==
    IF chs = <<>> THEN <<>>
    ELSE InsertByPosition(chs[Len(chs)], SortByPosition(SubSeq(chs, 1, Len(chs) - 1)))

\* category.children.cache.filter(...).sort(...): the text channels of the
\* category, by position
TextChannels(cat) == SortByPosition(SelectSeq(cat, IsGuildText))

\* for (const [, channel] of textChannels): the channel of the iteration
\* that is running
Channel == TextChannels(category)[completed]

\* The handler up to the loop: no text channel, preview only, or the reply
\* that announces the bulk migration (which may reject and end the handler).
BulkStart ==
    /\ bulkPc = "command"
    /\ IF textChannels = 0
       THEN bulkPc' = "replied"
       ELSE \E previewOnly \in BOOLEAN, announced \in BOOLEAN :
            bulkPc' = IF previewOnly THEN "replied"
                      ELSE IF announced THEN "loop" ELSE "aborted"
    /\ UNCHANGED <<category, textChannels, completed, results, bulkLog>>
    /\ UNCHANGED <<pc, opts, history, all, lastId, batches, pages, messages,
                   appliedTags, cur, counts, retryAfter, waited, inFlight, calls,
                   progress, delays, error, result, sendVars, handlerVars>>

\* The head of the for loop over textChannels: completed++ and migrateChannel
\* is called for the next channel, or the loop is over and the summary is sent.
BulkNext ==
    /\ bulkPc = "loop"
    /\ IF completed < textChannels
       THEN /\ completed' = completed + 1
            /\ bulkLog' = Append(bulkLog, Event("start", completed + 1))
            /\ bulkPc' = "running"
       ELSE /\ bulkPc' = "summarized"
            /\ UNCHANGED <<completed, bulkLog>>
    /\ UNCHANGED <<category, textChannels, results>>
    /\ UNCHANGED <<pc, opts, history, all, lastId, batches, pages, messages,
                   appliedTags, cur, counts, retryAfter, waited, inFlight, calls,
                   progress, delays, error, result, sendVars, handlerVars>>

\* The throw of migrateChannel left uncaught: the handler ends with it.
RunThrowsUncaught ==
    /\ bulkPc = "running"
    /\ bulkLog' = Append(bulkLog, Event("end", completed))
    /\ bulkPc' = "aborted"
    /\ UNCHANGED <<category, textChannels, completed, results>>
    /\ UNCHANGED <<pc, opts, history, all, lastId, batches, pages, messages,
                   appliedTags, cur, counts, retryAfter, waited, inFlight, calls,
                   progress, delays, error, result, sendVars, handlerVars>>

\* migrateChannel throws (validation, fetch, post or webhook creation): it
\* holds no webhook then. catch (err) { results.push({success: false}) }
RunThrows ==
    /\ bulkPc = "running"
    /\ results' = Append(results, [channel |-> Channel.name, success |-> FALSE])
    /\ bulkLog' = Append(bulkLog, Event("end", completed))
    /\ bulkPc' = "afterRun"
    /\ UNCHANGED <<category, textChannels, completed>>
    /\ UNCHANGED <<pc, opts, history, all, lastId, batches, pages, messages,
                   appliedTags, cur, counts, retryAfter, waited, inFlight, calls,
                   progress, delays, error, result, sendVars, handlerVars>>

\* migrateChannel has created its webhook.
RunCreatesWebhook ==
    /\ bulkPc = "running"
    /\ bulkLog' = Append(bulkLog, Event("webhook", completed))
    /\ bulkPc' = "holding"
    /\ UNCHANGED <<category, textChannels, completed, results>>
    /\ UNCHANGED <<pc, opts, history, all, lastId, batches, pages, messages,
                   appliedTags, cur, counts, retryAfter, waited, inFlight, calls,
                   progress, delays, error, result, sendVars, handlerVars>>

\* The sends the run of the current channel has made
RunSent ==
    Len(SelectSeq(bulkLog, LAMBDA e : e.what = "send" /\ e.channel = completed))

\* The replay loop of the run sends a message through its webhook.
RunSends ==
    /\ bulkPc = "holding"
    /\ RunSent < MaxMsgs
    /\ bulkLog' = Append(bulkLog, Event("send", completed))
    /\ UNCHANGED <<category, textChannels, completed, results, bulkPc>>
    /\ UNCHANGED <<pc, opts, history, all, lastId, batches, pages, messages,
                   appliedTags, cur, counts, retryAfter, waited, inFlight, calls,
                   progress, delays, error, result, sendVars, handlerVars>>

\* The run leaves its replay loop, calls webhook.delete in the finally block
\* and returns. results.push({success: true, ...result})
RunReturns ==
    /\ bulkPc = "holding"
    /\ results' = Append(results, [channel |-> Channel.name, success |-> TRUE])
    /\ bulkLog' = bulkLog \o <<Event("release", completed), Event("end", completed)>>
    /\ bulkPc' = "afterRun"
    /\ UNCHANGED <<category, textChannels, completed>>
    /\ UNCHANGED <<pc, opts, history, all, lastId, batches, pages, messages,
                   appliedTags, cur, counts, retryAfter, waited, inFlight, calls,
                   progress, delays, error, result, sendVars, handlerVars>>

\* The cooldown taken only after a channel that was migrated.
BulkCooldownAfterSuccess ==
    /\ bulkPc = "afterRun"
    /\ IF completed < textChannels /\ results[Len(results)].success
       THEN bulkLog' = Append(bulkLog, Event("cooldown", 0))
       ELSE UNCHANGED bulkLog
    /\ bulkPc' = "loop"
    /\ UNCHANGED <<category, textChannels, completed, results>>
    /\ UNCHANGED <<pc, opts, history, all, lastId, batches, pages, messages,
                   appliedTags, cur, counts, retryAfter, waited, inFlight, calls,
                   progress, delays, error, result, sendVars, handlerVars>>

\* if (completed < textChannels.size) { await sleep(BULK_DELAY) }
BulkCooldown ==
    /\ bulkPc = "afterRun"
    /\ IF completed < textChannels
       THEN bulkLog' = Append(bulkLog, Event("cooldown", 0))
       ELSE UNCHANGED bulkLog
    /\ bulkPc' = "loop"
    /\ UNCHANGED <<category, textChannels, completed, results>>
    /\ UNCHANGED <<pc, opts, history, all, lastId, batches, pages, messages,
                   appliedTags, cur, counts, retryAfter, waited, inFlight, calls,
                   progress, delays, error, result, sendVars, handlerVars>>

\* The orders of n channels
Orders(n) == {p \in [1..n -> 1..n] : \A i, j \in 1..n : p[i] = p[j] => i = j}

\* The categories of up to MaxChannels children, text or voice, named by
\* their place in the cache and positioned in any order
Categories ==
    UNION {{[i \in 1..n |-> Child(i, type[i], position[i])] :
                type \in [1..n -> {"GuildText", "GuildVoice"}],
                position \in Orders(n)} : n \in 0..MaxChannels}

\* A /drift-category command on a category with up to MaxChannels children.
InitBulk ==
    /\ category \in Categories
    /\ textChannels = Len(TextChannels(category))
    /\ completed = 0
    /\ results = <<>>
    /\ bulkPc = "command"
    /\ bulkLog = <<>>
    /\ pc = "idle"
    /\ history = <<>>
    /\ InitRun
    /\ InitNoHandlers

NextBulk ==
    \/ BulkStart
    \/ BulkNext
    \/ RunThrows
    \/ RunCreatesWebhook
    \/ RunSends
    \/ RunReturns
    \/ BulkCooldown

SpecBulk == InitBulk /\ [][NextBulk]_vars

\* ------------------------------------------------- the replay loop, at length
\* One iteration of the for loop of lines 154-207, the try block of lines
\* 172-193 taken as a whole: the message is skipped, or its sends end with a
\* delivery or with a counted error; then messageCount++, the progress update
\* when due, and the inter-message sleep.
ReplayStep ==
    /\ pc = "replay"
    /\ IF cur > Len(messages)
       THEN /\ pc' = "cleanup"
            /\ UNCHANGED <<cur, counts, progress, delays>>
       ELSE LET m == messages[cur]
            IN /\ IF IsSystem(m) \/ IsEmpty(m)
                  THEN /\ counts' = SkipMessage(counts)
                       /\ UNCHANGED <<progress, delays>>
                  ELSE \E sent \in BOOLEAN :
                        LET c == IF sent THEN Delivered(counts, m)
                                 ELSE Bump(counts, "errorCount", 1)
                        IN /\ counts' = Bump(c, "messageCount", 1)
                           /\ IF (c.messageCount + 1) % PROGRESS_INTERVAL = 0
                              THEN UpdateProgress(1)
                              ELSE UNCHANGED progress
                           /\ delays' = delays + 1
               /\ cur' = cur + 1
               /\ UNCHANGED pc
    /\ UNCHANGED <<opts, history, all, lastId, batches, pages, messages,
                   appliedTags, retryAfter, waited, inFlight, calls, error,
                   result, sendVars, bulkVars, handlerVars>>

\* Long lists of fetched messages: text messages, but for the places in
\* `skipped`, which hold system messages
LongMessages ==
    {[i \in 1..n |-> Msg(i, IF i \in skipped THEN SystemMsg ELSE TextMsg)] :
        n \in (PROGRESS_INTERVAL - 1)..MaxReplay,
        skipped \in {S \in SUBSET (1..MaxReplay) : Cardinality(S) <= MaxSkipped}}

\* The run is about to enter the replay loop with a long list of messages.
InitReplay ==
    /\ pc = "replay"
    /\ messages \in LongMessages
    /\ cur = 1
    /\ history = messages
    /\ opts = NoOpts
    /\ all = <<>>
    /\ lastId = NULL
    /\ batches = 0
    /\ pages = <<>>
    /\ appliedTags = <<>>
    /\ counts = [messageCount |-> 0, attachmentCount |-> 0,
                 skippedCount |-> 0, errorCount |-> 0]
    /\ retryAfter = 0
    /\ waited = 0
    /\ inFlight = {}
    /\ calls = <<>>
    /\ progress = 0
    /\ delays = 0
    /\ error = NoError
    /\ result = NoResult
    /\ payload = NoPayload
    /\ files = <<>>
    /\ att = 0
    /\ downloaded = <<>>
    /\ payloads = <<>>
    /\ InitNoBulk
    /\ InitNoHandlers

NextReplay == ReplayStep

SpecReplay == InitReplay /\ [][NextReplay]_vars

\* --------------------------------------------------- the forum's tag setting
\* A call of migrateChannel on a channel with one text message, for a forum
\* that requires a tag on every post or does not (the RequireTag flag of the
\* forum channel, which migrateChannel never reads: lines 78-98 look at
\* forumChannel.availableTags only).
InitTags ==
    /\ pc = "validate"
    /\ history = <<Msg(1, TextMsg)>>
    /\ \E required \in BOOLEAN : opts = [requireTag |-> required]
    /\ all = <<>>
    /\ lastId = NULL
    /\ batches = 0
    /\ pages = <<>>
    /\ messages = <<>>
    /\ appliedTags = <<>>
    /\ cur = 0
    /\ counts = [messageCount |-> 0, attachmentCount |-> 0,
                 skippedCount |-> 0, errorCount |-> 0]
    /\ retryAfter = 0
    /\ waited = 0
    /\ inFlight = {}
    /\ calls = <<>>
    /\ progress = 0
    /\ delays = 0
    /\ error = NoError
    /\ result = NoResult
    /\ payload = NoPayload
    /\ files = <<>>
    /\ att = 0
    /\ downloaded = <<>>
    /\ payloads = <<>>
    /\ InitNoBulk
    /\ InitNoHandlers

SpecTags == InitTags /\ [][Next]_vars

\* ------------------------------------------- command handlers side by side
\* The InteractionCreate listener is async: a second command is handled while
\* the first one's run is waiting on a remote call. Two handlers are followed
\* from the creation of their webhooks on.
Handlers == {1, 2}

\* An entry of the log of what the runs did with webhooks; for a send, whether
\* the webhook existed when the send was made
HookEvent(h, op, id, live) == [handler |-> h, op |-> op, webhook |-> id, live |-> live]

\* The id the remote gives to the next webhook it creates: a new one each time
NewWebhookId == 1 + Len(SelectSeq(webhookLog, LAMBDA e : e.op = "create"))

\* The rest of the state when handler h has stored `id` in a `webhook` that is
\* one module-level variable shared by all runs.
StoreWebhookShared(h, id) == webhook' = [g \in Handlers |-> id]

\* webhook = await forumChannel.createWebhook(...): `webhook` is a local of
\* the call of migrateChannel
StoreWebhook(h, id) == webhook' = [webhook EXCEPT ![h] = id]

\* Lines 136-145 in the run of handler h
HandlerCreatesWebhook(h) ==
    /\ handlerPc[h] = "createWebhook"
    /\ \E ok \in BOOLEAN :
        IF ok
        THEN /\ StoreWebhook(h, NewWebhookId)
             /\ liveWebhooks' = liveWebhooks \cup {NewWebhookId}
             /\ webhookLog' = Append(webhookLog,
                                     HookEvent(h, "create", NewWebhookId, TRUE))
             /\ handlerPc' = [handlerPc EXCEPT ![h] = "replay"]
        ELSE /\ handlerPc' = [handlerPc EXCEPT ![h] = "failed"]
             /\ UNCHANGED <<webhook, liveWebhooks, webhookLog>>
    /\ UNCHANGED <<remaining, pc, opts, history, all, lastId, batches, pages,
                   messages, appliedTags, cur, counts, retryAfter, waited,
                   inFlight, calls, progress, delays, error, result, sendVars,
                   bulkVars>>

\* One message of the replay loop in the run of handler h: webhook.send
\* through the run's `webhook` (lines 173 and 424); whatever it answers, the
\* loop goes on
HandlerSends(h) ==
    /\ handlerPc[h] = "replay"
    /\ remaining[h] > 0
    /\ webhookLog' = Append(webhookLog,
            HookEvent(h, "send", webhook[h], webhook[h] \in liveWebhooks))
    /\ remaining' = [remaining EXCEPT ![h] = @ - 1]
    /\ UNCHANGED <<handlerPc, webhook, liveWebhooks, pc, opts, history, all,
                   lastId, batches, pages, messages, appliedTags, cur, counts,
                   retryAfter, waited, inFlight, calls, progress, delays, error,
                   result, sendVars, bulkVars>>

\* The finally block in the run of handler h: webhook.delete, best effort
HandlerDeletesWebhook(h) ==
    /\ handlerPc[h] = "replay"
    /\ remaining[h] = 0
    /\ \E ok \in BOOLEAN :
        liveWebhooks' = IF ok THEN liveWebhooks \ {webhook[h]} ELSE liveWebhooks
    /\ webhookLog' = Append(webhookLog,
            HookEvent(h, "delete", webhook[h], webhook[h] \in liveWebhooks))
    /\ handlerPc' = [handlerPc EXCEPT ![h] = "done"]
    /\ UNCHANGED <<webhook, remaining, pc, opts, history, all, lastId, batches,
                   pages, messages, appliedTags, cur, counts, retryAfter, waited,
                   inFlight, calls, progress, delays, error, result, sendVars,
                   bulkVars>>

\* Two commands are being handled, each run about to create its webhook with
\* some messages to replay.
InitHandlers ==
    /\ handlerPc = [h \in Handlers |-> "createWebhook"]
    /\ webhook = [h \in Handlers |-> NULL]
    /\ remaining \in [Handlers -> 1..MaxMsgs]
    /\ liveWebhooks = {}
    /\ webhookLog = <<>>
    /\ pc = "idle"
    /\ history = <<>>
    /\ InitRun
    /\ InitNoBulk

NextHandlers ==
    \E h \in Handlers :
        \/ HandlerCreatesWebhook(h)
        \/ HandlerSends(h)
        \/ HandlerDeletesWebhook(h)

SpecHandlers == InitHandlers /\ [][NextHandlers]_vars

\* ------------------------------------------------ every remote call settles
\* Short histories of system and text messages
PlainHistories ==
    UNION {{[i \in 1..n |-> Msg(i, f[i])] : f \in [1..n -> {SystemMsg, TextMsg}]} :
            n \in 0..MaxMsgs}

\* A call of migrateChannel on a channel with a short history
InitLive ==
    /\ pc = "validate"
    /\ history \in PlainHistories
    /\ InitRun
    /\ InitNoBulk
    /\ InitNoHandlers

\* The run is one chain of awaits: whatever it waits for (a remote call, a
\* timer) settles, so the step that follows is eventually taken.
SpecLive == InitLive /\ [][Next]_vars /\ WF_vars(Next)

\* A call of fetchAllMessages on a channel with an arbitrary history, every
\* page request of which settles.
SpecFetchLive == InitFetch /\ [][NextFetch]_vars /\ WF_vars(NextFetch)

\* --------------------------------------------------------------------- claims
\* The entries of the call log that satisfy P
Calls(P(_)) == SelectSeq(calls, P)

NumCalls(op, res) == Len(Calls(LAMBDA c : c.op = op /\ c.res = res))

\* Positions of the call log that hold a call of operation op
CallIdx(op) == {i \in 1..Len(calls) : calls[i].op = op}

RunEnded == pc \in {"done", "failed"}

\* s holds sub as a contiguous part
Contains(s, sub) ==
    \E k \in 0..(Len(s) - Len(sub)) : SubSeq(s, k + 1, k + Len(sub)) = sub

\* C1: in a run whose webhook creation succeeded, at most one webhook is
\* created, webhook.delete is called exactly once by the time the run ends
\* (and never more than once), and no send through the webhook starts or
\* settles after the deletion call.
C1_WebhookDeletedExactlyOnce ==
    LET created == NumCalls("createWebhook", "ok")
        deletes == CallIdx("deleteWebhook")
    IN  /\ Cardinality(CallIdx("createWebhook")) <= 1
        /\ created = 0 => deletes = {}
        /\ created = 1 =>
            /\ Cardinality(deletes) <= 1
            /\ RunEnded => Cardinality(deletes) = 1
            /\ \A d \in deletes :
                \A i \in CallIdx("send") \cup CallIdx("settle") : i < d

\* A run that ended after a delivered message and a counted send error.
C1_Witness ==
    /\ pc = "done"
    /\ result.errorCount > 0
    /\ NumCalls("settle", "ok") > 0
    /\ Cardinality(CallIdx("deleteWebhook")) = 1

\* C2: a call of migrateChannel that throws has created no destination post.
C2_ThrowsOnlyBeforePost ==
    pc = "failed" => NumCalls("createPost", "ok") = 0

\* C3: in every returned MigrationResult, messageCount = skippedCount +
\* (number of messages whose send through the webhook succeeded) + errorCount.
C3_SkipAccounting ==
    pc = "done" =>
        result.messageCount
            = result.skippedCount + NumCalls("settle", "ok") + result.errorCount

ValidationKinds ==
    {"SourceType", "ForumType", "MissingPermissions", "TagNotFound", "NoMessages"}

\* C4: when the call fails on a channel kind, a missing permission, an unknown
\* tag name or an empty fetch, no post or webhook creation, no send, no source
\* notification and no source edit has been attempted.
C4_ValidationFailsBeforeMutation ==
    (pc = "failed" /\ error.kind \in ValidationKinds) => calls = <<>>

\* A pins-only run on a non-empty channel without pins failed on zero messages.
C4_Witness ==
    /\ pc = "failed"
    /\ error.kind = "NoMessages"
    /\ opts.pinsOnly
    /\ Len(history) > 0

TagMatches(t, tn) == ToLowerCase(t.name) = ToLowerCase(tn)

NoTagMatches ==
    \A i \in 1..Len(opts.availableTags) :
        ~TagMatches(opts.availableTags[i], opts.tagName)

\* C5: a requested tag name that matches no tag of the forum, whatever the
\* case, makes the call fail before any post is created, with an error that
\* lists every tag name of the forum and without applying any tag; the call
\* fails so only then.
C5_UnknownTagFailsListingTags ==
    /\ error.kind = "TagNotFound" =>
        /\ pc = "failed"
        /\ opts.tagName # <<>>
        /\ NoTagMatches
        /\ calls = <<>>
        /\ appliedTags = <<>>
        /\ \A i \in 1..Len(opts.availableTags) :
            Contains(error.available, opts.availableTags[i].name)
    /\ ("tagName" \in DOMAIN opts /\ opts.tagName # <<>> /\ NoTagMatches) =>
        /\ pc = "failed"
        /\ error.kind = "TagNotFound"

\* Tag "foo" requested on a forum whose tags are Migrated and Archive.
C5_Witness ==
    /\ error.kind = "TagNotFound"
    /\ opts.tagName = <<"f", "o", "o">>
    /\ opts.availableTags = <<TagMigrated, TagArchive>>

MsgIds == {messages[i].id : i \in 1..Len(messages)}

\* The webhook.send calls started for the message id, and how they settled
SendsOf(id) == Calls(LAMBDA c : c.op = "send" /\ c.msg = id)
SettlesOf(id) == Calls(LAMBDA c : c.op = "settle" /\ c.msg = id)

\* The replay is done with the message id
Handled(id) ==
    \E i \in 1..Len(messages) :
        /\ messages[i].id = id
        /\ i < cur \/ (i = cur /\ pc = "afterSend") \/ pc \in {"notify", "archive", "done"}

\* The last attempt made for the message id failed for good
FailedForGood(id) ==
    LET s == SettlesOf(id)
    IN \/ Len(s) = 1 /\ s[1].res = "other"
       \/ Len(s) = 2 /\ s[2].res # "ok"

\* C6: a retry starts only after more than the signalled retry interval (5 s
\* when none is signalled) has been slept; no message gets more than two send
\* attempts; a message whose first attempt is rate limited gets exactly two
\* and no other message gets a second; errorCount counts exactly the messages
\* whose only or second attempt failed, so a successful retry adds nothing and
\* a failed retry adds one, whatever its kind.
C6_RateLimitRetriedOnce ==
    /\ pc = "retrying" =>
        waited > 1000 * (IF retryAfter = 0 THEN 5 ELSE retryAfter)
    /\ \A id \in MsgIds :
        LET sends == Len(SendsOf(id))
            settles == SettlesOf(id)
        IN  /\ sends <= 2
            /\ sends = 2 => settles[1].res = "rate"
            /\ (Handled(id) /\ settles # <<>> /\ settles[1].res = "rate") =>
                /\ sends = 2
                /\ Len(settles) = 2
    /\ counts.errorCount = Cardinality({id \in MsgIds : FailedForGood(id)})

\* A rate limit without retryAfter, a retry that succeeded, no error counted.
C6_Witness ==
    /\ pc = "afterSend"
    /\ retryAfter = 0
    /\ counts.errorCount = 0
    /\ Len(SettlesOf(messages[cur].id)) = 2
    /\ SettlesOf(messages[cur].id)[1].res = "rate"
    /\ SettlesOf(messages[cur].id)[2].res = "ok"

\* In every state of a run:
C7_State ==
    /\ \A id \in MsgIds :
        (SettlesOf(id) # <<>> /\ SettlesOf(id)[1].res = "other") =>
            /\ Len(SendsOf(id)) = 1
            /\ Len(SettlesOf(id)) = 1
    /\ CallIdx("send") # {} => pc # "failed"
    /\ pc = "done" => result.messageCount = Len(messages)

\* In every step in which a first send settles with a failure that is no rate limit:
C7_Step ==
    (pc = "sending" /\ pc' # "sending" /\ calls'[Len(calls')].res = "other") =>
        /\ counts'.errorCount = counts.errorCount + 1
        /\ pc' = "afterSend"
        /\ cur' = cur

\* C7: a send failure that is no rate-limit signal adds exactly one to
\* errorCount and is never retried (one attempt for that message); the run
\* does not abort: the loop goes on to the next message, a run that has sent
\* never throws, and the returned messageCount covers every fetched message.
C7_OtherFailureCountedNotRetried == []C7_State /\ [][C7_Step]_vars

\* A returned run in which a message failed with a plain error and a later
\* message was delivered.
C7_Witness ==
    /\ pc = "done"
    /\ \E i, j \in 1..Len(messages) :
        /\ i < j
        /\ SettlesOf(messages[i].id) # <<>>
        /\ SettlesOf(messages[i].id)[1].res = "other"
        /\ SettlesOf(messages[j].id) # <<>>
        /\ SettlesOf(messages[j].id)[1].res = "ok"

\* C8: fetchAllMessages returns the history oldest first: ids ascending and
\* creation times non-decreasing, every message of the history present, none
\* twice.
C8_FetchOldestFirstComplete ==
    pc = "fetched" =>
        /\ \A i \in 1..(Len(messages) - 1) :
            /\ messages[i].id < messages[i + 1].id
            /\ messages[i].createdTimestamp <= messages[i + 1].createdTimestamp
        /\ Len(messages) = Len(history)
        /\ {messages[i] : i \in 1..Len(messages)} = {history[i] : i \in 1..Len(history)}

\* A history of more than two full pages was fetched.
C8_Witness ==
    /\ pc = "fetched"
    /\ Len(messages) > 2 * PAGE_LIMIT
    /\ Len(pages) = 4

RECURSIVE SumSizes(_)
SumSizes(ps) == IF ps = <<>> THEN 0 ELSE Head(ps).size + SumSizes(Tail(ps))

\* C9: no page is requested after an empty page (or a failed request); the
\* first request carries no cursor and each later one the id of the last
\* message of the page before; what is returned is as long as the pages
\* served before the empty page together.
C9_StopsAtFirstEmptyPage ==
    /\ \A k \in 1..(Len(pages) - 1) : pages[k].size > 0
    /\ \A k \in 1..Len(pages) :
        pages[k].before = IF k = 1 THEN NULL ELSE pages[k - 1].last
    /\ pc = "fetching" => Len(all) = SumSizes(pages)
    /\ pc = "fetched" =>
        /\ pages[Len(pages)].size = 0
        /\ Len(messages) = SumSizes(SubSeq(pages, 1, Len(pages) - 1))

\* Two full pages, a partial page and the empty page were served.
C9_Witness ==
    /\ pc = "fetched"
    /\ Len(pages) = 4
    /\ pages[3].size > 0
    /\ pages[3].size < PAGE_LIMIT

\* The send and settle entries of the call log
SendLog == Calls(LAMBDA c : c.op \in {"send", "settle"})

PosOf(id) == CHOOSE i \in 1..Len(messages) : messages[i].id = id

\* C10: sends and their outcomes alternate (a send starts only when the one
\* before has settled, so at most one is in flight), the attempts follow the
\* order of the fetched list, and no message is delivered twice.
C10_SequentialSends ==
    LET log == SendLog
        n == Len(log)
        pos == [k \in 1..n |-> PosOf(log[k].msg)]
    IN  /\ Cardinality(inFlight) <= 1
        /\ inFlight = IF n % 2 = 1 THEN {log[n].msg} ELSE {}
        /\ \A k \in 1..n :
            IF k % 2 = 1
            THEN log[k].op = "send"
            ELSE log[k].op = "settle" /\ log[k].msg = log[k - 1].msg
        /\ \A k \in 2..n : pos[k - 1] <= pos[k]
        /\ \A id \in MsgIds :
            Cardinality({k \in 1..n : /\ log[k].op = "settle"
                                      /\ log[k].msg = id
                                      /\ log[k].res = "ok"}) <= 1

\* Two messages delivered in order, the first one by its retry.
C10_Witness ==
    /\ pc = "done"
    /\ Len(messages) = 2
    /\ [i \in 1..Len(SendLog) |-> SendLog[i].res]
        = <<"start", "rate", "start", "ok", "start", "ok">>
    /\ SendLog[1].msg = messages[1].id
    /\ SendLog[5].msg = messages[2].id

\* The stage of the run a position of migrateChannel belongs to
StageOf(p) ==
    CASE p = "validate" -> "Validating"
      [] p \in {"fetchStart", "fetching"} -> "Fetching"
      [] p \in {"fetched", "createPost", "createWebhook"} -> "CreatingPost"
      [] p \in {"replay", "sending", "backoff", "retrying", "afterSend"} -> "Replaying"
      [] p = "cleanup" -> "CleaningUp"
      [] p \in {"notify", "archive"} -> "Finalizing"
      [] p = "done" -> "Done"
      [] p = "failed" -> "Failed"

StageRank(stage) ==
    CASE stage = "Validating" -> 1 [] stage = "Fetching" -> 2
      [] stage = "CreatingPost" -> 3 [] stage = "Replaying" -> 4
      [] stage = "CleaningUp" -> 5 [] stage = "Finalizing" -> 6
      [] stage = "Done" -> 7 [] stage = "Failed" -> 7

\* Every step stays in its stage or enters the next one; Failed is entered
\* from any stage, Done from Finalizing only.
C11_Step ==
    pc' # "failed" =>
        StageRank(StageOf(pc')) - StageRank(StageOf(pc)) \in {0, 1}

\* The run has ended, the post had been created and something failed afterwards
\* (a fatal error or a counted send error).
FailedAfterPost ==
    /\ RunEnded
    /\ NumCalls("createPost", "ok") = 1
    /\ pc = "failed" \/ counts.errorCount > 0

\* A run that failed after the post was created went through CleaningUp.
C11_State == FailedAfterPost => CallIdx("deleteWebhook") # {}

\* C11: a run goes through Validating, Fetching, CreatingPost, Replaying,
\* CleaningUp, Finalizing in that order and ends in Done or Failed, no stage is
\* entered again once left, and a run in which something failed after the post
\* was created goes through CleaningUp before it ends.
C11_StagesInOrder == []C11_State /\ [][C11_Step]_vars

\* The best-effort calls made so far: webhook.delete, sourceChannel.send,
\* sourceChannel.edit
BestEffortIdx == CallIdx("deleteWebhook") \cup CallIdx("notify") \cup CallIdx("edit")

\* In every state of a run: nothing is thrown once a best-effort call has been
\* made, and a returned run has attempted the deletion, then the notification,
\* then (when requested) the archive, whatever each of them answered, and
\* returns the counters the replay left.
C12_State ==
    /\ pc = "failed" => BestEffortIdx = {}
    /\ pc = "done" =>
        /\ Cardinality(CallIdx("deleteWebhook")) = 1
        /\ Cardinality(CallIdx("notify")) = 1
        /\ \A d \in CallIdx("deleteWebhook"), n \in CallIdx("notify") : d < n
        /\ Cardinality(CallIdx("edit")) = IF opts.archiveSource THEN 1 ELSE 0
        /\ \A n \in CallIdx("notify"), e \in CallIdx("edit") : n < e
        /\ result = [returned |-> TRUE] @@ counts

\* In every step of the cleanup, the notification and the archive: the run
\* goes on to the next position and the counters stay as the replay left them.
C12_Step ==
    /\ pc = "cleanup" => pc' = "notify"
    /\ pc = "notify" => pc' = "archive"
    /\ pc = "archive" => pc' = "done"
    /\ pc \in {"cleanup", "notify", "archive"} => counts' = counts /\ error' = error

\* C12: a failure of a best-effort side effect (webhook deletion, source
\* notification, source archive; a progress update leaves no trace at all)
\* never leaves migrateChannel: the later steps are still attempted and the
\* returned counters are those of the replay.
C12_BestEffortNeverPropagates == []C12_State /\ [][C12_Step]_vars

\* A returned run whose deletion, notification and archive all failed, after
\* a delivered message.
C12_Witness ==
    /\ pc = "done"
    /\ NumCalls("deleteWebhook", "other") = 1
    /\ NumCalls("notify", "other") = 1
    /\ NumCalls("edit", "other") = 1
    /\ NumCalls("settle", "ok") > 0
    /\ result.messageCount = Len(messages)

\* C13: previewChannel is read-only: it makes no mutating call at all (no post
\* or webhook created, nothing sent, no webhook deleted, no channel edited),
\* no send is ever in flight and the channel's history stays as it was; what
\* it calls is the history fetch, the pinned fetch and the progress update.
C13_PreviewReadOnly ==
    /\ [](calls = <<>> /\ inFlight = {})
    /\ [][history' = history]_vars

\* A preview that returned after paging through a channel with a pinned message.
C13_Witness ==
    /\ pc = "previewed"
    /\ Len(pages) = 2
    /\ progress = 1
    /\ result.totalMessages = 2
    /\ result.pinnedMessages = 1

\* String.prototype.endsWith
EndsWith(s, suffix) ==
    Len(s) >= Len(suffix) /\ SubSeq(s, Len(s) - Len(suffix) + 1, Len(s)) = suffix

\* The payload of the message has been handed to webhook.send
PayloadSent == pc \in {"sendingOne", "backoffOne", "counted"} /\ payload.built

\* The text of the message with its markers and the timestamp suffix is over
\* the character limit
OverLimit(m) == Len(MarkedContent(m)) + Len(TimestampSuffix(m)) > MAX_CONTENT_LEN

\* C14: for a message whose text (with reply and sticker markers) plus the
\* timestamp suffix exceeds the 2000-character limit, the content of the
\* payload sent is at most 2000 long and ends with the timestamp suffix,
\* whatever its attachments.
C14_TruncatedWithinLimit ==
    (PayloadSent /\ OverLimit(messages[cur])) =>
        /\ Len(payload.content) <= MAX_CONTENT_LEN
        /\ EndsWith(payload.content, TimestampSuffix(messages[cur]))

\* The same for the messages all of whose attachments end up in the files
C14_WithoutWarnings ==
    (PayloadSent /\ OverLimit(messages[cur])
        /\ Len(payload.files) = Len(messages[cur].attachments)) =>
        /\ Len(payload.content) <= MAX_CONTENT_LEN
        /\ EndsWith(payload.content, TimestampSuffix(messages[cur]))

\* The files delivered for the message: those of the payload, once a
\* webhook.send of it has fulfilled
FilesDelivered ==
    IF calls # <<>> /\ calls[Len(calls)].res = "ok" THEN Len(payload.files) ELSE 0

\* C20: once the message is counted, attachmentCount is the number of
\* attachments delivered as files by a successful send: oversized
\* attachments, failed downloads and files beyond the cap are not counted.
C20_AttachmentCountAccurate ==
    pc = "counted" => counts.attachmentCount = FilesDelivered

\* The loop is at a message it skips
AtSkipped ==
    /\ pc = "replay"
    /\ cur <= Len(messages)
    /\ IsSystem(messages[cur]) \/ IsEmpty(messages[cur])

\* In every state: a returned run has counted every fetched message, and no
\* send was ever started for a system message or an entirely empty one.
C15_State ==
    /\ pc = "done" => result.messageCount = Len(messages)
    /\ \A i \in 1..Len(messages) :
        (IsSystem(messages[i]) \/ IsEmpty(messages[i])) =>
            SendsOf(messages[i].id) = <<>>

\* In every step taken at a skipped message: skippedCount and messageCount grow
\* by one each, the other counters stay, no call is made, the loop moves on.
C15_Step ==
    AtSkipped =>
        /\ counts' = [counts EXCEPT !.skippedCount = @ + 1, !.messageCount = @ + 1]
        /\ calls' = calls
        /\ inFlight' = inFlight
        /\ cur' = cur + 1

\* C15: the returned messageCount is the number of fetched messages; a system
\* message or an entirely empty one adds one to skippedCount and one to
\* messageCount and is never transformed or sent.
C15_SkippedCountedNotSent == []C15_State /\ [][C15_Step]_vars

\* A returned run over a system message and a delivered text message.
C15_Witness ==
    /\ pc = "done"
    /\ Len(messages) = 2
    /\ IsSystem(messages[1])
    /\ SettlesOf(messages[2].id) # <<>>
    /\ result.messageCount = 2
    /\ result.skippedCount = 1

\* C16: the inter-message delay has been taken once for every message the
\* replay loop is done with, skipped messages included.
C16_DelayAfterEveryMessage ==
    pc \in {"replay", "cleanup", "notify", "archive", "done"} =>
        delays = counts.messageCount

\* The label the error uses for a required permission
PermissionLabel(perm) ==
    CASE perm = "ViewChannel" -> "View Channel (source)"
      [] perm = "ReadMessageHistory" -> "Read Message History (source)"
      [] perm = "SendMessages" -> "Send Messages (forum)"
      [] perm = "ManageWebhooks" -> "Manage Webhooks (forum)"
      [] perm = "CreatePublicThreads" -> "Create Posts (forum)"

\* The required permissions the call was made without
Lacking ==
    (SourcePermissions \ opts.srcPerms) \cup (ForumPermissions \ opts.frmPerms)

KindsRight == opts.sourceType = "GuildText" /\ opts.forumType = "GuildForum"

\* C17: a call with the right channel kinds and one or more of the five
\* required permissions missing fails before anything is fetched, with one
\* error listing exactly the missing ones, each once; a call with a wrong
\* channel kind fails on the kind, whatever its permissions.
C17_AllMissingPermissionsListed ==
    pc # "validate" =>
        /\ (KindsRight /\ Lacking # {}) =>
            /\ pc = "failed"
            /\ error.kind = "MissingPermissions"
            /\ {error.missing[i] : i \in 1..Len(error.missing)}
                = {PermissionLabel(p) : p \in Lacking}
            /\ Len(error.missing) = Cardinality(Lacking)
            /\ pages = <<>> /\ messages = <<>> /\ progress = 0 /\ calls = <<>>
        /\ ~KindsRight =>
            /\ pc = "failed"
            /\ error.kind = IF opts.sourceType # "GuildText" THEN "SourceType"
                            ELSE "ForumType"
        /\ error.kind = "MissingPermissions" => KindsRight /\ Lacking # {}

\* A call that failed for a missing source permission and a missing forum one.
C17_Witness ==
    /\ pc = "failed"
    /\ error.kind = "MissingPermissions"
    /\ error.missing = <<"Read Message History (source)", "Manage Webhooks (forum)">>

\* The remote operations migrateChannel performs; none deletes a channel or
\* edits or deletes a message.
Operations ==
    {"createPost", "createWebhook", "send", "settle", "deleteWebhook", "notify", "edit"}

\* In every state of a run:
C19_State ==
    /\ \A i \in 1..Len(calls) : calls[i].op \in Operations
    /\ Cardinality(CallIdx("edit")) <= 1
    /\ Cardinality(CallIdx("notify")) <= 1
    /\ \A e \in CallIdx("edit") :
        /\ opts.archiveSource
        /\ CallIdx("deleteWebhook") # {}
        /\ \A i \in CallIdx("send") \cup CallIdx("settle") \cup CallIdx("deleteWebhook") :
            i < e
    /\ (pc = "done" /\ ~opts.archiveSource) =>
        /\ CallIdx("edit") = {}
        /\ Cardinality(CallIdx("notify")) = 1

\* In every step: the messages the source channel had stay as they were, and
\* the channel gets a message only by the notification.
C19_Step ==
    /\ Len(history') >= Len(history)
    /\ SubSeq(history', 1, Len(history)) = history
    /\ history' # history =>
        /\ pc = "notify"
        /\ Len(history') = Len(history) + 1

\* C19: the source channel is never deleted and its messages never modified;
\* it is edited only when archive-source is requested, only after the replay
\* and the webhook cleanup, at most once; without archive-source the only
\* write to it is the one notification message.
C19_SourceOnlyLockedOnRequest == []C19_State /\ [][C19_Step]_vars

\* A returned run that delivered a message, posted the notification and
\* locked the source on request.
C19_Witness ==
    /\ pc = "done"
    /\ opts.archiveSource
    /\ NumCalls("edit", "ok") = 1
    /\ NumCalls("notify", "ok") = 1
    /\ NumCalls("settle", "ok") > 0
    /\ Len(history) = Len(messages) + 1

\* Positions of the bulk log that hold an event of the kind `what`
EventIdx(what) == {k \in 1..Len(bulkLog) : bulkLog[k].what = what}

\* The channels whose run holds a webhook after the first k entries of the log
HoldersAt(k) ==
    {bulkLog[j].channel : j \in {j \in 1..k : bulkLog[j].what = "webhook"}}
    \ {bulkLog[j].channel : j \in {j \in 1..k : bulkLog[j].what = "release"}}

\* C18: the runs of a bulk command are serialized: the run of the first
\* channel starts first and the run of every other channel starts right after
\* the cooldown that follows the end of the run before it; a cooldown is
\* taken between two channels only, never after the last one; at no time do
\* two runs hold a webhook, and a run sends only while it alone holds one.
C18_BulkRunsSerialized ==
    /\ \A k \in EventIdx("start") :
        IF bulkLog[k].channel = 1 THEN k = 1
        ELSE /\ k > 2
             /\ bulkLog[k - 1].what = "cooldown"
             /\ bulkLog[k - 2] = Event("end", bulkLog[k].channel - 1)
    /\ \A k \in EventIdx("cooldown") :
        /\ k > 1
        /\ bulkLog[k - 1].what = "end"
        /\ bulkLog[k - 1].channel < textChannels
        /\ k < Len(bulkLog) => bulkLog[k + 1].what = "start"
    /\ bulkPc = "summarized" =>
        /\ bulkLog[Len(bulkLog)] = Event("end", textChannels)
        /\ Cardinality(EventIdx("cooldown")) = textChannels - 1
        /\ Cardinality(EventIdx("start")) = textChannels
    /\ \A k \in 1..Len(bulkLog) :
        /\ Cardinality(HoldersAt(k)) <= 1
        /\ bulkLog[k].what = "send" => HoldersAt(k) = {bulkLog[k].channel}
        /\ bulkLog[k].what \in {"start", "end", "cooldown"} => HoldersAt(k) = {}

\* A bulk command over three channels: the first and the third migrated with
\* sends, the second failed.
C18_Witness ==
    /\ bulkPc = "summarized"
    /\ textChannels = 3
    /\ [i \in 1..Len(results) |-> results[i].success] = <<TRUE, FALSE, TRUE>>
    /\ Cardinality(EventIdx("send")) = 3
    /\ Cardinality(EventIdx("cooldown")) = 2

\* C21: a message whose transformed content is only the timestamp suffix,
\* without attachments and embeds, is not sent and is counted as a skip:
\* once it is counted no webhook.send has been made for it, skippedCount has
\* grown by one and errorCount has not.
C21_NothingToSendIsSkip ==
    (pc = "counted" /\ NothingToSend(messages[cur])) =>
        /\ calls = <<>>
        /\ counts.skippedCount = 1
        /\ counts.errorCount = 0

\* The part of it the code keeps: nothing is sent and no error is counted
C21_NotSentNotError ==
    (pc = "counted" /\ NothingToSend(messages[cur])) =>
        /\ calls = <<>>
        /\ ~payload.built
        /\ counts.errorCount = 0
        /\ counts.messageCount = 1

\* What the attachment loop and the file cap appended to the content built
\* from the text of the message
Warnings ==
    SubSeq(payload.content, Len(BuildContent(messages[cur])) + 1,
           Len(payload.content))

\* The lines of a text every line of which begins with a line feed
RECURSIVE Lines(_)
Lines(s) ==
    IF s = <<>> THEN <<>>
    ELSE LET rest == Tail(s)
             ends == {k \in 1..Len(rest) : rest[k] = "\n"}
             n == IF ends = {} THEN Len(rest)
                  ELSE (CHOOSE k \in ends : \A j \in ends : k <= j) - 1
         IN <<SubSeq(rest, 1, n)>> \o Lines(SubSeq(rest, n + 1, Len(rest)))

\* The warning lines that begin with the given words
WarningLines(words) == SelectSeq(Lines(Warnings), LAMBDA l : StartsWith(l, words))

\* '-# ⚠️ Skipped large file: '
SkippedLargeWords ==
    <<"-", "#", " ", "U+26A0", "U+FE0F", " ", "S", "k", "i", "p", "p", "e", "d",
      " ", "l", "a", "r", "g", "e", " ", "f", "i", "l", "e", ":", " ">>

\* The declared size is strictly greater than 25 MiB
Over25MiB(a) == a.size > 25 * 1024 * 1024

Range(s) == {s[i] : i \in 1..Len(s)}

\* The indexes of the attachments fetched by the present call of
\* sendMigratedMessage, in the order of the fetches
DownloadedIdx == [k \in 1..Len(downloaded) |-> downloaded[k].att]

\* The indexes, in order, of the attachments of the message over 25 MiB
OversizedIdx ==
    SelectSeq([i \in 1..Len(messages[cur].attachments) |-> i],
              LAMBDA i : Over25MiB(messages[cur].attachments[i]))

\* C22: an attachment whose declared size is over 25 MiB is never fetched;
\* once the payload is handed to webhook.send every other attachment has been
\* fetched, every file of the payload comes from a fetched attachment, and
\* the content carries, in attachment order, exactly one "Skipped large file"
\* line per oversized attachment, naming the file and its size. A message
\* with attachments is always sent, with no file when all are oversized.
C22_OversizedNeverDownloaded ==
    LET m == messages[cur]
        over == OversizedIdx
    IN  /\ \A i \in Range(DownloadedIdx) : ~Over25MiB(m.attachments[i])
        /\ PayloadSent =>
            /\ Range(DownloadedIdx) = (1..Len(m.attachments)) \ Range(over)
            /\ Len(payload.files) <= Len(downloaded)
            /\ Len(over) = Len(m.attachments) => payload.files = <<>>
            /\ StartsWith(payload.content, BuildContent(m))
            /\ LET lines == WarningLines(SkippedLargeWords)
               IN /\ Len(lines) = Len(over)
                  /\ \A k \in 1..Len(over) :
                      LET a == m.attachments[over[k]]
                      IN /\ <<"\n">> \o lines[k] = SkippedLargeNote(a)
                         /\ Contains(lines[k], a.name)
                         /\ Contains(lines[k], FormatSize(a.size))
        /\ (pc = "counted" /\ Len(m.attachments) > 0) =>
            /\ payload.built
            /\ NumCalls("send", "start") >= 1

\* A message with a file of exactly 25 MiB and one a byte larger was
\* delivered: the first was fetched and is the only file, the second has its
\* warning line.
C22_Witness ==
    /\ pc = "counted"
    /\ NumCalls("settle", "ok") = 1
    /\ LET m == messages[cur]
       IN /\ Len(m.attachments) = 2
          /\ m.attachments[1].size = 25 * 1024 * 1024
          /\ m.attachments[2].size = 25 * 1024 * 1024 + 1
          /\ payload.files = <<m.attachments[1].name>>
          /\ DownloadedIdx = <<1>>
          /\ Len(WarningLines(SkippedLargeWords)) = 1

\* A message whose only attachment is oversized was delivered without files.
C22_OnlyOversizedSent ==
    /\ pc = "counted"
    /\ NumCalls("settle", "ok") = 1
    /\ Len(messages[cur].attachments) = 1
    /\ Over25MiB(messages[cur].attachments[1])
    /\ payload.files = <<>>
    /\ downloaded = <<>>

\* '-# ⚠️ Could not download: '
CouldNotDownloadWords ==
    <<"-", "#", " ", "U+26A0", "U+FE0F", " ", "C", "o", "u", "l", "d", " ", "n",
      "o", "t", " ", "d", "o", "w", "n", "l", "o", "a", "d", ":", " ">>

\* The indexes, in order, of the attachments whose download failed
FailedIdx ==
    LET hits == SelectSeq(downloaded, LAMBDA d : d.res # "ok")
    IN [k \in 1..Len(hits) |-> hits[k].att]

\* The indexes, in order, of the attachments whose download succeeded
FetchedIdx ==
    LET hits == SelectSeq(downloaded, LAMBDA d : d.res = "ok")
    IN [k \in 1..Len(hits) |-> hits[k].att]

\* The indexes, in order, of the attachments of the message not over 25 MiB
WithinLimitIdx ==
    SelectSeq([i \in 1..Len(messages[cur].attachments) |-> i],
              LAMBDA i : ~Over25MiB(messages[cur].attachments[i]))

\* err.message of the download that failed for the attachment at index i
ReasonOf(i) ==
    LET d == CHOOSE d \in Range(downloaded) : d.att = i
    IN IF d.res = "http" THEN <<"H", "T", "T", "P", " ", "4", "0", "4">>
       ELSE <<"f", "e", "t", "c", "h", " ", "f", "a", "i", "l", "e", "d">>

\* The outcome of the last webhook.send made for the message
LastSettle == calls[Len(calls)].res

\* C23: a failed download does not fail the message. The attachments are
\* fetched in source order and the loop goes on after a failure; once the
\* payload is handed to webhook.send the files built are those of the
\* downloads that succeeded, in order, and the content carries, in order,
\* exactly one "Could not download" line per failed download, naming the file
\* and the reason. A message with attachments is always sent, and errorCount
\* grows only when the last webhook.send made for it was rejected.
C23_FailedDownloadNotFatal ==
    LET m == messages[cur]
        failed == FailedIdx
    IN  /\ Len(downloaded) <= Len(WithinLimitIdx)
        /\ \A j \in 1..Len(downloaded) : DownloadedIdx[j] = WithinLimitIdx[j]
        /\ PayloadSent =>
            /\ DownloadedIdx = WithinLimitIdx
            /\ files = [k \in 1..Len(FetchedIdx) |->
                            m.attachments[FetchedIdx[k]].name]
            /\ StartsWith(payload.content, BuildContent(m))
            /\ LET lines == WarningLines(CouldNotDownloadWords)
               IN /\ Len(lines) = Len(failed)
                  /\ \A k \in 1..Len(failed) :
                      LET a == m.attachments[failed[k]]
                      IN /\ lines[k] = CouldNotDownloadWords \o <<"*", "*">>
                                        \o a.name \o <<"*", "*", " ", "U+2014", " ">>
                                        \o ReasonOf(failed[k])
        /\ (pc = "counted" /\ Len(m.attachments) > 0) =>
            /\ payload.built
            /\ NumCalls("send", "start") >= 1
            /\ counts.errorCount = IF LastSettle = "ok" THEN 0 ELSE 1

\* A message whose first attachment the CDN refused and whose second one
\* downloaded was delivered with the second as its only file, one warning
\* line and no error counted.
C23_Witness ==
    /\ pc = "counted"
    /\ NumCalls("settle", "ok") = 1
    /\ LET m == messages[cur]
       IN /\ Len(m.attachments) = 2
          /\ m.attachments[1].fetch = "http"
          /\ ~Over25MiB(m.attachments[1])
          /\ DownloadedIdx = <<1, 2>>
          /\ payload.files = <<m.attachments[2].name>>
          /\ Len(WarningLines(CouldNotDownloadWords)) = 1
          /\ counts.errorCount = 0

\* '(10-file limit per message)'
FileLimitWords ==
    <<"(", "1", "0", "-", "f", "i", "l", "e", " ", "l", "i", "m", "i", "t", " ",
      "p", "e", "r", " ", "m", "e", "s", "s", "a", "g", "e", ")">>

\* The warning lines about files left out for the file limit
OmittedLines == SelectSeq(Lines(Warnings), LAMBDA l : EndsWith(l, FileLimitWords))

\* C24: a payload handed to webhook.send carries at most 10 files. When more
\* than 10 attachments were downloaded, its files are the first 10 of them in
\* source order and the content carries exactly one line that states how many
\* were left out (the number downloaded minus 10); otherwise its files are
\* all the downloads and there is no such line. The files left out get no
\* message of their own: webhook.send fulfils at most once for the message.
C24_AtMostTenFiles ==
    LET m == messages[cur]
        got == [k \in 1..Len(FetchedIdx) |-> m.attachments[FetchedIdx[k]].name]
    IN  /\ PayloadSent =>
            /\ Len(payload.files) <= 10
            /\ IF Len(got) > 10
               THEN /\ payload.files = SubSeq(got, 1, 10)
                    /\ Len(OmittedLines) = 1
                    /\ StartsWith(OmittedLines[1],
                            <<"-", "#", " ", "U+26A0", "U+FE0F", " ">>
                            \o Digits(Len(got) - 10)
                            \o <<" ", "a", "d", "d", "i", "t", "i", "o", "n", "a", "l",
                                 " ", "f", "i", "l", "e", "(", "s", ")">>)
               ELSE /\ payload.files = got
                    /\ OmittedLines = <<>>
        /\ NumCalls("settle", "ok") <= 1
        /\ pc = "counted" => inFlight = {}

\* A message with twelve attachments, the second of which failed to download,
\* was delivered with ten files (1, 3, ..., 11) and a line about one file left
\* out.
C24_Witness ==
    /\ pc = "counted"
    /\ NumCalls("settle", "ok") = 1
    /\ Len(messages[cur].attachments) = 12
    /\ Len(files) = 11
    /\ Len(payload.files) = 10
    /\ payload.files[1] = <<"1", ".", "p", "n", "g">>
    /\ payload.files[2] = <<"3", ".", "p", "n", "g">>
    /\ payload.files[10] = <<"1", "1", ".", "p", "n", "g">>
    /\ Len(OmittedLines) = 1
    /\ Contains(OmittedLines[1], <<" ", "1", " ", "a", "d", "d">>)

\* The loop is between two messages, or past the last one
BetweenMessages == pc \in {"replay", "cleanup"}

\* C25: during replay a progress update has been emitted for every multiple
\* of 15 that the number of processed messages has reached, whatever the mix
\* of skipped and other messages.
C25_ProgressEveryInterval ==
    BetweenMessages => progress = counts.messageCount \div 15

\* The same as long as the messages that brought the count to a multiple of
\* 15 were not skipped ones
C25_UnlessSkipped ==
    BetweenMessages =>
        progress = Cardinality({k \in 1..(cur - 1) :
                                   /\ k % 15 = 0
                                   /\ ~IsSystem(messages[k])
                                   /\ ~IsEmpty(messages[k])})

\* The tags of the forum are known to the run and no tag error was thrown
TagsResolved == "availableTags" \in DOMAIN opts /\ error.kind # "TagNotFound"

\* The ids of the tags of the forum whose name is `name` whatever the case
TagIdsNamed(name) ==
    LET hits == SelectSeq(opts.availableTags, LAMBDA t : TagMatches(t, name))
    IN [k \in 1..Len(hits) |-> hits[k].id]

\* C26: at most one tag is applied to the post. With a tag name that matches
\* a tag of the forum whatever the case, exactly that tag is applied; with no
\* tag name, on a forum that requires a tag and has a tag named "migrated",
\* that tag is applied; in every other case no tag is applied and the run
\* goes on to the creation of the post.
C26_TagResolution ==
    TagsResolved =>
        /\ Len(appliedTags) <= 1
        /\ IF opts.tagName # <<>>
           THEN appliedTags = <<TagIdsNamed(opts.tagName)[1]>>
           ELSE IF opts.requireTag /\ TagIdsNamed(MigratedName) # <<>>
           THEN appliedTags = <<TagIdsNamed(MigratedName)[1]>>
           ELSE /\ appliedTags = <<>>
                /\ pc # "fetched"
                /\ error.kind # "NoMessages"

\* The same with the fallback taken on every forum that has tags, required
\* or not
C26_FallbackWheneverTagsExist ==
    TagsResolved =>
        /\ Len(appliedTags) <= 1
        /\ IF opts.tagName # <<>>
           THEN appliedTags = <<TagIdsNamed(opts.tagName)[1]>>
           ELSE IF TagIdsNamed(MigratedName) # <<>>
           THEN appliedTags = <<TagIdsNamed(MigratedName)[1]>>
           ELSE /\ appliedTags = <<>>
                /\ pc # "fetched"
                /\ error.kind # "NoMessages"

\* Positions of the log of page requests at which the fetch failed
FailedPages == {k \in 1..Len(pages) : pages[k].size = -1}

\* C27: a failed fetch is neither retried nor swallowed. A page request that
\* failed is the last request made, and the run has failed with the fetch
\* error; a run that failed with a fetch error (of a page, or of the pinned
\* messages in pins-only mode) has kept no message of a partially fetched
\* list and has attempted no creation of a post or a webhook, nor any other
\* remote change.
C27_FetchFailurePropagates ==
    /\ \A k \in FailedPages :
        /\ k = Len(pages)
        /\ pc = "failed"
        /\ error.kind = "FetchFailed"
    /\ error.kind = "FetchFailed" =>
        /\ pc = "failed"
        /\ messages = <<>>
        /\ calls = <<>>
        /\ ~result.returned
        /\ opts.pinsOnly => pages = <<>>
        /\ ~opts.pinsOnly => FailedPages # {}

\* The second page request of a run failed after a first page of two messages.
C27_Witness ==
    /\ pc = "failed"
    /\ error.kind = "FetchFailed"
    /\ Len(pages) = 2
    /\ pages[1].size = 2
    /\ pages[2].size = -1
    /\ Len(all) = 2
    /\ messages = <<>>
    /\ calls = <<>>

\* A pins-only run failed on the fetch of the pinned messages.
C27_PinsWitness ==
    /\ pc = "failed"
    /\ error.kind = "FetchFailed"
    /\ opts.pinsOnly

\* C28: the transform of a message is deterministic: the payloads that the
\* executions of sendMigratedMessage on the message handed to webhook.send
\* (the first attempt and the retry after a rate limit) are the same in
\* content, files and embeds, and a message with nothing to send never has a
\* payload built.
C28_TransformDeterministic ==
    /\ \A i, j \in 1..Len(payloads) : payloads[i] = payloads[j]
    /\ NothingToSend(messages[cur]) => (payloads = <<>> /\ ~payload.built)

\* Every download of the message ends the same way each time
StableDownloads ==
    \A i \in 1..Len(messages[cur].attachments) :
        Cardinality(FetchOutcomes(messages[cur].attachments[i])) = 1

\* The same for the messages whose downloads end the same way each time
C28_WithStableDownloads ==
    /\ StableDownloads => \A i, j \in 1..Len(payloads) : payloads[i] = payloads[j]
    /\ NothingToSend(messages[cur]) => (payloads = <<>> /\ ~payload.built)

\* The retry of a message was made with another payload than the first attempt
C28_TwoPayloads ==
    /\ Len(payloads) = 2
    /\ payloads[1] # payloads[2]
    /\ Len(payloads[1].files) = 1
    /\ payloads[2].files = <<>>

\* The webhooks created by the run of handler h
CreatedBy(h) ==
    {webhookLog[k].webhook : k \in {k \in 1..Len(webhookLog) :
        webhookLog[k].op = "create" /\ webhookLog[k].handler = h}}

\* C29: no two concurrent runs share a webhook. Every send of a run goes
\* through the webhook this run created, which exists at the time of the send
\* (no other run's cleanup has removed it); a run deletes only the webhook it
\* created; the webhooks held by two runs are never the same.
C29_RunsShareNoWebhook ==
    /\ \A k \in 1..Len(webhookLog) :
        LET e == webhookLog[k]
        IN /\ e.op \in {"send", "delete"} => CreatedBy(e.handler) = {e.webhook}
           /\ e.op = "send" => e.live
    /\ \A g, h \in Handlers :
        (g # h /\ webhook[g] # NULL) => webhook[g] # webhook[h]
    /\ \A g, h \in Handlers : g # h => CreatedBy(g) \cap CreatedBy(h) = {}

\* The second run created its webhook while the first was replaying, and the
\* first run deleted its webhook while the second still had a message to
\* send, which it then sent.
C29_Witness ==
    /\ handlerPc = [h \in Handlers |-> "done"]
    /\ \E i, j, k \in 1..Len(webhookLog) :
        /\ i < j /\ j < k
        /\ webhookLog[i] = HookEvent(1, "send", 1, TRUE)
        /\ webhookLog[j] = HookEvent(1, "delete", 1, TRUE)
        /\ webhookLog[k] = HookEvent(2, "send", 2, TRUE)
        /\ \E c \in (i + 1)..(j - 1) : webhookLog[c] = HookEvent(2, "create", 2, TRUE)

\* The fetched messages that are not system messages
UserMessages == SelectSeq(messages, LAMBDA m : ~m.system)

\* C30: in the statistics previewChannel returns, the classes partition the
\* fetched list: textOnly + withImages + withFiles + systemMessages is
\* totalMessages, which is the length of the list; botMessages and
\* uniqueAuthors are each at most totalMessages - systemMessages; a system
\* message is counted in systemMessages only, whoever its author.
C30_PreviewClassesPartition ==
    pc = "previewed" =>
        /\ result.totalMessages = Len(messages)
        /\ result.textOnly + result.withImages + result.withFiles
            + result.systemMessages = result.totalMessages
        /\ result.botMessages <= result.totalMessages - result.systemMessages
        /\ result.uniqueAuthors <= result.totalMessages - result.systemMessages
        /\ result.systemMessages = Len(messages) - Len(UserMessages)
        /\ result.botMessages =
            Cardinality({i \in 1..Len(messages) :
                            ~messages[i].system /\ messages[i].author.bot})
        /\ \A f \in {"textOnly", "withImages", "withFiles", "botMessages",
                     "systemMessages", "uniqueAuthors"} : result[f] >= 0

\* The preview of a channel that holds a document message and then a system
\* message whose author is a bot.
C30_Witness ==
    /\ pc = "previewed"
    /\ result.totalMessages = 2
    /\ result.withFiles = 1
    /\ result.systemMessages = 1
    /\ messages[2].system
    /\ messages[2].author.bot
    /\ result.botMessages = 0
    /\ result.uniqueAuthors = 1

\* In every step: a page request that serves messages moves the cursor to a
\* message strictly older than the one it was at, and any other step leaves
\* the cursor alone; the replay loop stays at its message or moves to the
\* next one, never back.
C31_Step ==
    /\ (pc = "fetching" /\ Len(all') > Len(all)) =>
        /\ lastId' # NULL
        /\ lastId # NULL => lastId' < lastId
    /\ (pc # "fetching" \/ Len(all') = Len(all)) => lastId' = lastId
    /\ pc \in {"replay", "sending", "backoff", "retrying", "afterSend"} =>
        cur' \in {cur, cur + 1}

\* In every state: the fetch loop was left on an empty page, and no message
\* has had more than two sends started.
C31_State ==
    /\ (pc \notin {"validate", "fetchStart", "fetching", "failed"} /\ pages # <<>>) =>
        pages[Len(pages)].size = 0
    /\ \A i \in 1..Len(messages) : Len(SendsOf(messages[i].id)) <= 2

\* C31: when every remote call settles, a call of migrateChannel on a channel
\* with a finite history ends (it returns or throws); on the way the fetch
\* cursor moves to strictly older messages on every non-empty page and the
\* loop ends on an empty page, and the replay loop never goes back to a
\* message and starts at most two sends for each.
C31_Terminates ==
    /\ <>(pc \in {"done", "failed"})
    /\ []C31_State
    /\ [][C31_Step]_vars

\* A run that returned after paging through two messages and replaying them,
\* the first of which took two send attempts.
C31_Witness ==
    /\ pc = "done"
    /\ Len(pages) = 2
    /\ Len(messages) = 2
    /\ Len(SendsOf(messages[1].id)) = 2
    /\ result.messageCount = 2

\* fetchAllMessages ends on every history, however many pages it takes, with
\* the cursor moving to strictly older messages.
C31_FetchLoopTerminates ==
    /\ <>(pc \in {"fetched", "failed"})
    /\ [][(Len(all') > Len(all) /\ lastId # NULL) => lastId' < lastId]_vars

\* The text channels among the children of the category
TextChildren == {category[i] : i \in {i \in 1..Len(category) : category[i].type = "GuildText"}}

\* The child of the category that has the name `name`
ChildNamed(name) == CHOOSE ch \in Range(category) : ch.name = name

\* The handler has entered its loop over the text channels
BulkLoopEntered == bulkPc \in {"loop", "running", "holding", "afterRun", "summarized"}

\* C32: in a bulk command a channel whose migration fails does not end the
\* run: once the loop is entered the handler never ends but by its summary,
\* whatever the runs did; the runs started so far are those of the first
\* channels in position order, one run each; every finished run left exactly
\* one entry, success or failure, in that same order; and at the summary the
\* results hold exactly one entry for every text channel of the category and
\* for no other channel.
C32_FailureDoesNotStopBulk ==
    /\ bulkLog # <<>> => BulkLoopEntered
    /\ BulkLoopEntered =>
        /\ \A k \in 1..completed :
              Cardinality({j \in EventIdx("start") : bulkLog[j].channel = k}) = 1
        /\ \A j \in EventIdx("start") : bulkLog[j].channel \in 1..completed
        /\ \A i, j \in EventIdx("start") :
              i < j => bulkLog[i].channel < bulkLog[j].channel
        /\ Len(results) = Cardinality(EventIdx("end"))
        /\ Len(results) \in {completed - 1, completed} \cap Nat
        /\ \A i \in 1..Len(results) :
              /\ ChildNamed(results[i].channel) \in TextChildren
              /\ Cardinality({ch \in TextChildren :
                     ch.position < ChildNamed(results[i].channel).position}) = i - 1
    /\ bulkPc = "summarized" =>
        /\ Len(results) = Cardinality(TextChildren)
        /\ \A ch \in TextChildren :
              Cardinality({i \in 1..Len(results) : results[i].channel = ch.name}) = 1

\* A bulk command over a category whose cache order is not its position order
\* and that holds a voice channel: the text channel first in position failed,
\* the second was migrated all the same.
C32_Witness ==
    /\ bulkPc = "summarized"
    /\ Len(category) = 3
    /\ Cardinality(TextChildren) = 2
    /\ category[1].type = "GuildText"
    /\ category[3].type = "GuildText"
    /\ category[3].position < category[1].position
    /\ [i \in 1..Len(results) |-> results[i].success] = <<FALSE, TRUE>>
    /\ [i \in 1..Len(results) |-> results[i].channel] = <<3, 1>>

====
